---- MODULE Spec2Model ----
(***************************************************************************)
(* Model of the bosminer thermal/fan safety monitor                        *)
(* (open/bosminer/bosminer-antminer/src/monitor.rs), of the work registry  *)
(* (registry.rs) and of the BM1387 chip protocol library (bm1387.rs).      *)
(*                                                                         *)
(* Specifications:                                                         *)
(*   SpecDecide - the pure decision engine ControlDecision::decide applied *)
(*                to every Config / fan count / aggregated temperature of  *)
(*                a bounded grid;                                          *)
(*   SpecChain  - one hashchain's ChainState driven by the messages its    *)
(*                receive task applies, by monitor ticks and by the        *)
(*                passage of time;                                         *)
(*   SpecSensor - ChainTemperature::from_s9_sensor applied to every sensor *)
(*                reading of a bounded grid;                               *)
(*   SpecAccumulator - a TemperatureAccumulator filled with board          *)
(*                temperatures and asked for its result;                   *)
(*   Spec       - the running Monitor: registered hashchains with their    *)
(*                receive tasks, the tick task, with_configuration, the    *)
(*                miner-wide halt and the termination handler, sharing the *)
(*                lock of MonitorInner and the lock of every Chain; every  *)
(*                interleaving of the tasks at one instant (the timeouts   *)
(*                are covered by SpecChain and SpecTick);                  *)
(*   SpecTick   - one tick of the monitor, and the shutdown it may start,  *)
(*                over hashchains registered in any order and found in any *)
(*                state at an instant on either side of the timeouts;      *)
(*   SpecRegistry - the WorkRegistry of registry.rs, of every size of the  *)
(*                model, under any sequence of store_work, find_work and   *)
(*                insert_solution calls;                                   *)
(*   SpecWatchdog - the monitor with one hashchain over the seconds of its *)
(*                life: messages arriving or failing to arrive, and a tick *)
(*                every TICK_LENGTH seconds;                               *)
(*   SpecChip   - one call of the chip protocol library: building the      *)
(*                ticket mask, packing a command, MiscCtrlReg::set_i2c,    *)
(*                PllTable::lookup on the factory table.                   *)
(*                                                                         *)
(* Temperatures are f32 in the source; they are modelled on an integer     *)
(* grid of degrees (only their order is used by the code modelled here).   *)
(* Instants are modelled as whole seconds since the monitor was created.   *)
(* Option<T> is modelled as [kind |-> "None"] or [kind |-> "Some", v |-> x]*)
(* and every enum as a record with a `kind` field.                         *)
(***************************************************************************)
EXTENDS Integers, Sequences, FiniteSets, TLC

(***************************************************************************)
(* Bounds of the model                                                     *)
(***************************************************************************)
\* temperatures of the grid are 0..MaxTemp
MaxTemp == 3
\* fan counts (running fans, min_fans) are 0..MaxFans
MaxFans == 3
\* the clock stops advancing at MaxTime seconds
MaxTime == 180
\* a hashchain sends at most MaxMsgs messages
MaxMsgs == 4
\* measured temperatures go down to MaxFrost degrees below zero
MaxFrost == 2
\* a TemperatureAccumulator holds at most MaxAccumulated board temperatures
MaxAccumulated == 3
\* a tick goes over at most MaxBoards hashchains
MaxBoards == 2
\* at most MaxRegistered hashchains are registered while the monitor runs
MaxRegistered == 1
\* work registries have 1..MaxRegistrySize slots
MaxRegistrySize == 4
\* work assignments are 1..MaxWork
MaxWork == 2
\* nonces of solutions are 0..MaxNonce
MaxNonce == 1
\* solution indices of solutions are 0..MaxSolutionIdx
MaxSolutionIdx == 1
\* store_work is called at most MaxStores times on a registry
MaxStores == 9
\* insert_solution is called at most MaxInserts times on the items of a registry
MaxInserts == 2
\* the clock of the tick task stops at MaxWatch seconds
MaxWatch == 190
\* a hashchain is enabled (On) in the first MaxOnTime seconds only
MaxOnTime == 4
\* every difficulty up to MaxDifficulty is given to TicketMaskReg::new
MaxDifficulty == 70
\* commands are addressed to all chips and to the chips 0..MaxChipAddress
MaxChipAddress == 64
\* MiscCtrlReg::set_i2c is applied to a register up to MaxApplications times
MaxApplications == 2

(***************************************************************************)
(* Program constants                                                       *)
(***************************************************************************)
START_TIMEOUT == 180
RUN_UPDATE_TIMEOUT == 20
WARM_UP_PERIOD == 90
TICK_LENGTH == 5

\* fan::Speed sentinels (PWM duty in percent)
FULL_SPEED == 100
STOPPED == 0

(***************************************************************************)
(* Data types                                                              *)
(***************************************************************************)
None == [kind |-> "None"]
Some(x) == [kind |-> "Some", v |-> x]

\* ChainTemperature
Unknown == [kind |-> "Unknown"]
Failed == [kind |-> "Failed"]
Ok(t) == [kind |-> "Ok", t |-> t]

TempValues == 0..MaxTemp
ChainTemperatures == {Unknown, Failed} \cup {Ok(t) : t \in TempValues}

\* fan::Speed values used by the model: both sentinels and two ordinary duties
SpeedValues == {STOPPED, 1, 50, FULL_SPEED}

\* FanControlMode
FixedSpeed(pwm) == [kind |-> "FixedSpeed", pwm |-> pwm]
TargetTemperature(t) == [kind |-> "TargetTemperature", target_temp |-> t]
FanControlModes ==
    {FixedSpeed(p) : p \in SpeedValues} \cup {TargetTemperature(t) : t \in TempValues}

FanControlConfigs == [mode : FanControlModes, min_fans : 0..MaxFans]
TempControlConfigs == [dangerous_temp : TempValues, hot_temp : TempValues]

Configs ==
    [fan_config : {None} \cup {Some(f) : f \in FanControlConfigs},
     temp_config : {None} \cup {Some(t) : t \in TempControlConfigs},
     fans_on_while_warming_up : BOOLEAN]

\* ControlDecision
Shutdown == [kind |-> "Shutdown"]
UsePid(target, input) == [kind |-> "UsePid", target_temp |-> target, input_temp |-> input]
UseFixedSpeed(speed) == [kind |-> "UseFixedSpeed", speed |-> speed]
Nothing == [kind |-> "Nothing"]
\* a panic!() of the decision code, kept as an outcome so that reaching it is visible
Panicked == [kind |-> "Panic"]

\* ControlDecisionExplained; the reason is the source's text without the
\* numbers format!() puts into it
Explained(decision, reason) == [decision |-> decision, reason |-> reason]

VARIABLES
    \* -- decision engine: the arguments of one call of decide and its result
    config,             \* &Config
    num_fans_running,   \* usize
    temp,               \* aggregated ChainTemperature
    decision_explained, \* Some(result) once decide has returned, None before
    \* -- one hashchain as seen by the monitor
    chain,              \* Chain.state : ChainState
    clock,              \* what Instant::now() returns, in seconds
    msgs,               \* the messages the receive task has applied, oldest first
    op,                 \* the operation applied last: "new", "msg", "tick" or "time"
    timed_out,          \* TRUE once a tick has declared the chain Broken
    turned_on,          \* Some(instant of the On message) while On or Running
    first_heartbeat,    \* Some(instant of the first Running after On) while Running
    \* -- temperature interpretation and aggregation
    sensor,             \* the sensor::Temperature given to from_s9_sensor
    chain_temperature,  \* Some(result) once from_s9_sensor has returned
    chain_temperatures, \* TemperatureAccumulator.chain_temperatures
    input_temperature,  \* Some(result) once calc_result has returned
    \* -- the running monitor (MonitorInner, its tasks and the halt)
    chains,             \* inner.chains: Chain records in registration order
    recv_task,          \* per chain: Some(message) while its receive task holds
                        \* the lock of the Chain to apply that message
    inner_lock,         \* who holds Monitor.inner: "free" or "tick"
    pc_tick,            \* where the tick task is: "delay", "chains",
                        \* "send_halt", "halting" or "cancelled"
    chain_idx,          \* position of do_tick in inner.chains
    miner_warming_up,   \* do_tick's flag: some chain seen so far is warming up
    fan_control,        \* the speed fan::Control was last set to, None before
    current_fan_speed,  \* inner.current_fan_speed
    failure_state,      \* inner.failure_state
    halt,               \* who has sent the miner-wide halt: "monitor", "miner"
    terminated,         \* TRUE once termination_handler has run
    shutdown_reason,    \* Some(reason given to shutdown) once it was called
    status,             \* the value of the Status watch channel
    applied_in_tick,    \* positions of the chains that took a message since
                        \* the tick in progress locked inner
    seen_late,          \* those of them the tick in progress has looked at since
    pid,                \* inner.pid: what the calls of do_tick have left in it
    status_broadcasts,  \* number of calls of status_sender.broadcast, modulo 2
    \* -- the work registry (WorkRegistry) and what its callers have seen
    registry_size,      \* WorkRegistry.registry_size
    next_work_id,       \* WorkRegistry.next_work_id
    pending_work_list,  \* WorkRegistry.pending_work_list, indexed from 0
    result,             \* the call made last on the registry and what it returned
    stored,             \* number of store_work calls so far
    inserted,           \* number of insert_solution calls so far
    last_stored,        \* per work_id: the work stored last under it and the
                        \* number of the store_work call that stored it
    arrivals,           \* per work_id: the solutions given to insert_solution
                        \* for the item now in the slot, in order of arrival
    \* -- the tick task on the clock
    next_tick,          \* the instant at which delay_for(TICK_LENGTH) ends
    last_message,       \* the message the receive task applied last, and when
    \* -- the chip protocol library (bm1387.rs): one call and what it returned
    call,               \* the function called and its arguments
    reply               \* what the call returned, None while it has not

decide_vars == <<config, num_fans_running, temp, decision_explained>>
chain_vars == <<chain, clock, msgs, op, timed_out, turned_on, first_heartbeat>>
sensor_vars == <<sensor, chain_temperature>>
accumulator_vars == <<chain_temperatures, input_temperature>>
monitor_vars == <<chains, recv_task, inner_lock, pc_tick, chain_idx, miner_warming_up,
                  fan_control, current_fan_speed, failure_state, halt,
                  terminated, shutdown_reason, status, applied_in_tick, seen_late,
                  pid, status_broadcasts>>
registry_vars == <<registry_size, next_work_id, pending_work_list, result, stored,
                   inserted, last_stored, arrivals>>
watchdog_vars == <<next_tick, last_message>>
chip_vars == <<call, reply>>
vars == <<config, num_fans_running, temp, decision_explained,
          chain, clock, msgs, op, timed_out,
          turned_on, first_heartbeat,
          sensor, chain_temperature, chain_temperatures, input_temperature,
          chains, recv_task, inner_lock, pc_tick, chain_idx, miner_warming_up,
          fan_control, current_fan_speed, failure_state, halt,
          terminated, shutdown_reason, status, applied_in_tick, seen_late,
          pid, status_broadcasts,
          registry_size, next_work_id, pending_work_list, result, stored,
          inserted, last_stored, arrivals,
          next_tick, last_message, call, reply>>

(***************************************************************************)
(* Decision engine (ControlDecision)                                       *)
(***************************************************************************)

\* decide_fan_control comparing the temperature with HOT by > instead of >=
decide_fan_control_hot_gt(fan_config, temp_config, t) ==
    IF t = Unknown
    THEN Explained(UseFixedSpeed(FULL_SPEED), "Fans full speed: unknown temperature")
    ELSE IF fan_config.mode.kind = "FixedSpeed"
    THEN Explained(UseFixedSpeed(fan_config.mode.pwm), "User defined fan")
    ELSE IF t.kind \in {"Failed", "Unknown"}
    THEN Explained(Panicked, "BUG: should have been caught earlier")
    ELSE IF t.t > temp_config.hot_temp
    THEN Explained(UseFixedSpeed(FULL_SPEED), "Fans full speed: temperature above HOT")
    ELSE Explained(UsePid(fan_config.mode.target_temp, t.t), "Automatic fan control")

\* decide_fan_control stopping the fans at HOT instead of running them at full speed
decide_fan_control_hot_stops(fan_config, temp_config, t) ==
    IF t = Unknown
    THEN Explained(UseFixedSpeed(FULL_SPEED), "Fans full speed: unknown temperature")
    ELSE IF fan_config.mode.kind = "FixedSpeed"
    THEN Explained(UseFixedSpeed(fan_config.mode.pwm), "User defined fan")
    ELSE IF t.kind \in {"Failed", "Unknown"}
    THEN Explained(Panicked, "BUG: should have been caught earlier")
    ELSE IF t.t >= temp_config.hot_temp
    THEN Explained(UseFixedSpeed(STOPPED), "Fans full speed: temperature above HOT")
    ELSE Explained(UsePid(fan_config.mode.target_temp, t.t), "Automatic fan control")

\* Decision rules if both fan control and temp control are enabled
decide_fan_control(fan_config, temp_config, t) ==
    IF t = Unknown
    THEN Explained(UseFixedSpeed(FULL_SPEED), "Fans full speed: unknown temperature")
    ELSE IF fan_config.mode.kind = "FixedSpeed"
    THEN Explained(UseFixedSpeed(fan_config.mode.pwm), "User defined fan")
    ELSE \* FanControlMode::TargetTemperature(target_temp)
         IF t.kind \in {"Failed", "Unknown"}
         THEN Explained(Panicked,
                  "BUG: should have been caught earlier")
         ELSE \* ChainTemperature::Ok(input_temp)
              IF t.t >= temp_config.hot_temp
              THEN Explained(UseFixedSpeed(FULL_SPEED),
                       "Fans full speed: temperature above HOT")
              ELSE Explained(UsePid(fan_config.mode.target_temp, t.t),
                       "Automatic fan control")

\* Decision rules if fan control is enabled and temp control disabled
decide_fan_control_notemp(fan_config) ==
    IF fan_config.mode.kind = "FixedSpeed"
    THEN Explained(UseFixedSpeed(fan_config.mode.pwm), "Fans to (user defined)")
    ELSE Explained(UseFixedSpeed(FULL_SPEED), "wrong configuration - temp control off")

\* temp_danger comparing the temperature with DANGEROUS by > instead of >=
temp_danger_gt(cfg, t) ==
    IF cfg.temp_config.kind = "Some"
    THEN IF t.kind = "Failed"
         THEN Some(Explained(Shutdown, "Shutdown: temperature readout FAILED"))
         ELSE IF t.kind = "Ok" /\ t.t > cfg.temp_config.v.dangerous_temp
         THEN Some(Explained(Shutdown, "Shutdown: temperature above DANGEROUS"))
         ELSE None
    ELSE None

\* temp_danger matching a Failed readout before it looks whether temperature
\* control is configured
temp_danger_failed_first(cfg, t) ==
    IF t.kind = "Failed"
    THEN Some(Explained(Shutdown, "Shutdown: temperature readout FAILED"))
    ELSE IF cfg.temp_config.kind = "Some" /\ t.kind = "Ok"
            /\ t.t >= cfg.temp_config.v.dangerous_temp
    THEN Some(Explained(Shutdown, "Shutdown: temperature above DANGEROUS"))
    ELSE None

\* temp_danger letting a Failed readout through to the fan rules
temp_danger_ignoring_failed(cfg, t) ==
    IF cfg.temp_config.kind = "Some"
    THEN IF t.kind = "Ok" /\ t.t >= cfg.temp_config.v.dangerous_temp
         THEN Some(Explained(Shutdown, "Shutdown: temperature above DANGEROUS"))
         ELSE None
    ELSE None

\* The section labeled TEMP_DANGER: Some(shutdown) when the gate fires, else None
temp_danger(cfg, t) ==
    IF cfg.temp_config.kind = "Some"
    THEN IF t.kind = "Failed"
         THEN Some(Explained(Shutdown, "Shutdown: temperature readout FAILED"))
         ELSE IF t.kind = "Ok" /\ t.t >= cfg.temp_config.v.dangerous_temp
         THEN Some(Explained(Shutdown, "Shutdown: temperature above DANGEROUS"))
         ELSE None
    ELSE None

\* fan_danger comparing the fan count with min_fans by <= instead of <
fan_danger_le(fan_config, fans, chosen) ==
    IF chosen.decision # UseFixedSpeed(STOPPED) /\ fans <= fan_config.min_fans
    THEN Explained(Shutdown, "Shutdown: not enough fans")
    ELSE chosen

\* The section labeled FAN_DANGER: check `min_fans` are spinning unless the
\* decision is to stop the fans
fan_danger(fan_config, fans, chosen) ==
    IF chosen.decision # UseFixedSpeed(STOPPED) /\ fans < fan_config.min_fans
    THEN Explained(Shutdown, "Shutdown: not enough fans")
    ELSE chosen

\* The fan action chosen before the health of the fans is checked
fan_action(cfg, t) ==
    IF cfg.temp_config.kind = "Some"
    THEN decide_fan_control(cfg.fan_config.v, cfg.temp_config.v, t)
    ELSE decide_fan_control_notemp(cfg.fan_config.v)

\* decide checking that a fan is spinning also when fan control is disabled
decide_fans_unconditional(cfg, fans, t) ==
    IF temp_danger(cfg, t).kind = "Some"
    THEN temp_danger(cfg, t).v
    ELSE IF cfg.fan_config.kind = "Some"
    THEN fan_danger(cfg.fan_config.v, fans, fan_action(cfg, t))
    ELSE IF fans < 1
    THEN Explained(Shutdown, "Shutdown: not enough fans")
    ELSE Explained(Nothing, "control disabled")

\* Decide what to do depending on temperature/fan feedback
decide(cfg, fans, t) ==
    IF temp_danger(cfg, t).kind = "Some"
    THEN temp_danger(cfg, t).v
    ELSE IF cfg.fan_config.kind = "Some"
    THEN fan_danger(cfg.fan_config.v, fans, fan_action(cfg, t))
    ELSE Explained(Nothing, "control disabled")

(***************************************************************************)
(* SpecDecide: decide applied once to arguments drawn from the grid        *)
(***************************************************************************)
\* fan::pid::TempControl::new(): no limits, target or input set yet
PidNew == [limits |-> "new", target |-> None, input |-> None, output |-> None]

ChainIdle ==
    /\ chain = [kind |-> "Off"]
    /\ clock = 0
    /\ msgs = <<>>
    /\ op = "new"
    /\ timed_out = FALSE
    /\ turned_on = None
    /\ first_heartbeat = None

\* no monitor has been started
MonitorIdle ==
    /\ chains = <<>>
    /\ recv_task = <<>>
    /\ inner_lock = "free"
    /\ pc_tick = "cancelled"
    /\ chain_idx = 0
    /\ miner_warming_up = FALSE
    /\ fan_control = None
    /\ current_fan_speed = None
    /\ failure_state = FALSE
    /\ halt = {}
    /\ terminated = FALSE
    /\ shutdown_reason = None
    /\ status = None
    /\ applied_in_tick = {}
    /\ seen_late = {}
    /\ pid = PidNew
    /\ status_broadcasts = 0

\* no tick task is being followed on the clock
WatchdogIdle ==
    /\ next_tick = 0
    /\ last_message = None

\* no function of the chip protocol library has been called
ChipIdle ==
    /\ call = [fn |-> "none"]
    /\ reply = None

\* no work registry has been created
RegistryIdle ==
    /\ registry_size = 0
    /\ next_work_id = 0
    /\ pending_work_list = <<>>
    /\ result = [op |-> "none"]
    /\ stored = 0
    /\ inserted = 0
    /\ last_stored = <<>>
    /\ arrivals = <<>>

\* no sensor reading is being interpreted
SensorIdle ==
    /\ sensor = [local |-> [kind |-> "NotPresent"], remote |-> [kind |-> "NotPresent"]]
    /\ chain_temperature = None

\* TemperatureAccumulator::new, never asked for a result
AccumulatorIdle ==
    /\ chain_temperatures = <<>>
    /\ input_temperature = None

InitDecide ==
    /\ config \in Configs
    /\ num_fans_running \in 0..MaxFans
    /\ temp \in ChainTemperatures
    /\ decision_explained = None
    /\ ChainIdle
    /\ SensorIdle
    /\ AccumulatorIdle
    /\ MonitorIdle
    /\ RegistryIdle
    /\ WatchdogIdle
    /\ ChipIdle

\* one call of ControlDecision::decide
Decide ==
    /\ decision_explained = None
    /\ decision_explained' = Some(decide(config, num_fans_running, temp))
    /\ UNCHANGED <<config, num_fans_running, temp>>
    /\ UNCHANGED chain_vars
    /\ UNCHANGED <<sensor_vars, accumulator_vars, monitor_vars, registry_vars,
                   watchdog_vars, chip_vars>>

NextDecide == Decide

SpecDecide == InitDecide /\ [][NextDecide]_vars

\* the decision returned, when there is one
Returned == decision_explained.kind = "Some"
Result == decision_explained.v

(***************************************************************************)
(* Chain state machine (ChainState)                                        *)
(***************************************************************************)

\* sensor::Measurement and sensor::Temperature
MeasurementOk(v) == [kind |-> "Ok", value |-> v]
OpenCircuit == [kind |-> "OpenCircuit"]
InvalidReading == [kind |-> "InvalidReading"]
Temperature(local, remote) == [local |-> local, remote |-> remote]

\* the sensor readings hashchains report in the model
SensorTemperatures ==
    {Temperature(MeasurementOk(1), MeasurementOk(2)),
     Temperature(InvalidReading, OpenCircuit)}

\* Message
MsgOn == [kind |-> "On"]
MsgRunning(temperature) == [kind |-> "Running", temperature |-> temperature]
MsgOff == [kind |-> "Off"]
Messages == {MsgOn, MsgOff} \cup {MsgRunning(t) : t \in SensorTemperatures}

\* ChainState
StateOff == [kind |-> "Off"]
StateOn(started) == [kind |-> "On", started |-> started]
StateRunning(started, last_heartbeat, temperature) ==
    [kind |-> "Running", started |-> started, last_heartbeat |-> last_heartbeat,
     temperature |-> temperature]
StateBroken(reason) == [kind |-> "Broken", reason |-> reason]

\* Instant::duration_since; `earlier` is never later than `later` here, as
\* both come from the monotonic clock
duration_since(later, earlier) == later - earlier

\* Go into invalid state (no way out)
bad_transition == StateBroken("bad state transition")

\* transition accepting On in every state
transition_on_always(self, now, message) ==
    CASE message.kind = "On" -> StateOn(now)
      [] message.kind = "Running" ->
            IF self.kind \in {"Running", "On"}
            THEN StateRunning(self.started, now, message.temperature)
            ELSE bad_transition
      [] message.kind = "Off" ->
            IF self.kind \in {"On", "Running"} THEN StateOff ELSE bad_transition

\* transition restarting `started` at every heartbeat
transition_restart(self, now, message) ==
    CASE message.kind = "On" ->
            IF self.kind = "Off" THEN StateOn(now) ELSE bad_transition
      [] message.kind = "Running" ->
            IF self.kind \in {"Running", "On"}
            THEN StateRunning(now, now, message.temperature)
            ELSE bad_transition
      [] message.kind = "Off" ->
            IF self.kind \in {"On", "Running"} THEN StateOff ELSE bad_transition

\* transition counting `started` from the first heartbeat after On
transition_started_at_heartbeat(self, now, message) ==
    CASE message.kind = "On" ->
            IF self.kind = "Off" THEN StateOn(now) ELSE bad_transition
      [] message.kind = "Running" ->
            IF self.kind = "Running"
            THEN StateRunning(self.started, now, message.temperature)
            ELSE IF self.kind = "On"
            THEN StateRunning(now, now, message.temperature)
            ELSE bad_transition
      [] message.kind = "Off" ->
            IF self.kind \in {"On", "Running"} THEN StateOff ELSE bad_transition

\* transition refusing Off from On
transition_off_needs_running(self, now, message) ==
    CASE message.kind = "On" ->
            IF self.kind = "Off" THEN StateOn(now) ELSE bad_transition
      [] message.kind = "Running" ->
            IF self.kind \in {"Running", "On"}
            THEN StateRunning(self.started, now, message.temperature)
            ELSE bad_transition
      [] message.kind = "Off" ->
            IF self.kind = "Running" THEN StateOff ELSE bad_transition

\* React on an incoming message by changing the state
transition(self, now, message) ==
    CASE message.kind = "On" ->
            IF self.kind = "Off" THEN StateOn(now) ELSE bad_transition
      [] message.kind = "Running" ->
            IF self.kind \in {"Running", "On"}
            THEN StateRunning(self.started, now, message.temperature)
            ELSE bad_transition
      [] message.kind = "Off" ->
            IF self.kind \in {"On", "Running"} THEN StateOff ELSE bad_transition

\* tick comparing the elapsed time with the timeouts by > instead of >=
tick_gt(self, now) ==
    CASE self.kind = "On" ->
            IF duration_since(now, self.started) > START_TIMEOUT
            THEN StateBroken("took too long to start")
            ELSE self
      [] self.kind = "Running" ->
            IF duration_since(now, self.last_heartbeat) > RUN_UPDATE_TIMEOUT
            THEN StateBroken("failed to set update in time")
            ELSE self
      [] OTHER -> self

\* Do a timer tick: check all timeouts and do appropriate state transitions
tick(self, now) ==
    CASE self.kind = "On" ->
            IF duration_since(now, self.started) >= START_TIMEOUT
            THEN StateBroken("took too long to start")
            ELSE self
      [] self.kind = "Running" ->
            IF duration_since(now, self.last_heartbeat) >= RUN_UPDATE_TIMEOUT
            THEN StateBroken("failed to set update in time")
            ELSE self
      [] OTHER -> self

\* is_warming_up ending the warm-up period one instant early
is_warming_up_lt(self, now) ==
    CASE self.kind = "On" -> TRUE
      [] self.kind = "Running" -> duration_since(now, self.started) < WARM_UP_PERIOD
      [] OTHER -> FALSE

\* Is hashchain warming up?
is_warming_up(self, now) ==
    CASE self.kind = "On" -> TRUE
      [] self.kind = "Running" -> duration_since(now, self.started) <= WARM_UP_PERIOD
      [] OTHER -> FALSE

(***************************************************************************)
(* SpecChain: one registered hashchain, its receive task, the monitor's    *)
(* tick and the clock                                                      *)
(***************************************************************************)
DecideIdle ==
    /\ config = [fan_config |-> None, temp_config |-> None,
                 fans_on_while_warming_up |-> TRUE]
    /\ num_fans_running = 0
    /\ temp = Unknown
    /\ decision_explained = None

\* the time that passes between two events, in seconds
Delays == {19, 20, 70, 71}

\* Chain::new
InitChain ==
    /\ chain = StateOff
    /\ clock = 0
    /\ msgs = <<>>
    /\ op = "new"
    /\ timed_out = FALSE
    /\ turned_on = None
    /\ first_heartbeat = None
    /\ DecideIdle
    /\ SensorIdle
    /\ AccumulatorIdle
    /\ MonitorIdle
    /\ RegistryIdle
    /\ WatchdogIdle
    /\ ChipIdle

\* recv_task: the next message of the hashchain is applied at Instant::now()
Recv(message) ==
    /\ Len(msgs) < MaxMsgs
    /\ chain' = transition(chain, clock, message)
    /\ msgs' = Append(msgs, message)
    /\ op' = "msg"
    /\ turned_on' = IF chain'.kind \in {"On", "Running"}
                    THEN (IF message.kind = "On" THEN Some(clock) ELSE turned_on)
                    ELSE None
    /\ first_heartbeat' = IF chain'.kind = "Running"
                          THEN (IF chain.kind = "On" THEN Some(clock) ELSE first_heartbeat)
                          ELSE None
    /\ UNCHANGED <<clock, timed_out>>
    /\ UNCHANGED decide_vars
    /\ UNCHANGED <<sensor_vars, accumulator_vars, monitor_vars, registry_vars,
                   watchdog_vars, chip_vars>>

\* do_tick: the chain is advanced with tick(Instant::now())
Tick ==
    /\ chain' = tick(chain, clock)
    /\ timed_out' = (timed_out \/ (chain.kind # "Broken" /\ chain'.kind = "Broken"))
    /\ op' = "tick"
    /\ turned_on' = IF chain'.kind = "Broken" THEN None ELSE turned_on
    /\ first_heartbeat' = IF chain'.kind = "Broken" THEN None ELSE first_heartbeat
    /\ UNCHANGED <<clock, msgs>>
    /\ UNCHANGED decide_vars
    /\ UNCHANGED <<sensor_vars, accumulator_vars, monitor_vars, registry_vars,
                   watchdog_vars, chip_vars>>

\* time passes
Advance(d) ==
    /\ clock + d <= MaxTime
    /\ clock' = clock + d
    /\ op' = "time"
    /\ UNCHANGED <<chain, msgs, timed_out, turned_on, first_heartbeat>>
    /\ UNCHANGED decide_vars
    /\ UNCHANGED <<sensor_vars, accumulator_vars, monitor_vars, registry_vars,
                   watchdog_vars, chip_vars>>

NextChain ==
    \/ \E message \in Messages : Recv(message)
    \/ Tick
    \/ \E d \in Delays : Advance(d)

SpecChain == InitChain /\ [][NextChain]_vars

(***************************************************************************)
(* Interpretation of a sensor reading (ChainTemperature::from_s9_sensor)   *)
(***************************************************************************)
ShortCircuit == [kind |-> "ShortCircuit"]
NotPresent == [kind |-> "NotPresent"]

\* the temperatures a sensor can measure in the model (tmp451 reports from
\* 64 degrees below zero upwards)
MeasuredValues == (0 - MaxFrost)..MaxTemp

\* sensor::Measurement
Measurements ==
    {MeasurementOk(v) : v \in MeasuredValues}
        \cup {OpenCircuit, ShortCircuit, InvalidReading, NotPresent}

\* f32::max on two numbers
max(a, b) == IF a >= b THEN a ELSE b

\* from_s9_sensor faking the chip temperature even when the remote sensor works
from_s9_sensor_always_fake(t) ==
    IF t.local.kind = "Ok"
    THEN Ok(t.local.value + 15)
    ELSE IF t.remote.kind = "Ok" THEN Ok(t.remote.value) ELSE Unknown

\* Convert temperature to monitor interpretation
from_s9_sensor(t) ==
    IF t.remote.kind = "Ok"
    THEN IF t.local.kind = "Ok"
         THEN Ok(max(t.remote.value, t.local.value))
         ELSE Ok(t.remote.value)
    ELSE IF t.local.kind = "Ok"
         THEN Ok(t.local.value + 15)
         ELSE Unknown

(***************************************************************************)
(* SpecSensor: from_s9_sensor applied once to a reading drawn from the grid*)
(***************************************************************************)
InitSensor ==
    /\ sensor \in [local : Measurements, remote : Measurements]
    /\ chain_temperature = None
    /\ DecideIdle
    /\ ChainIdle
    /\ AccumulatorIdle
    /\ MonitorIdle
    /\ RegistryIdle
    /\ WatchdogIdle
    /\ ChipIdle

\* one call of ChainTemperature::from_s9_sensor
FromS9Sensor ==
    /\ chain_temperature = None
    /\ chain_temperature' = Some(from_s9_sensor(sensor))
    /\ UNCHANGED sensor
    /\ UNCHANGED <<decide_vars, chain_vars, accumulator_vars, monitor_vars, registry_vars,
                   watchdog_vars, chip_vars>>

NextSensor == FromS9Sensor

SpecSensor == InitSensor /\ [][NextSensor]_vars

(***************************************************************************)
(* Aggregation of board temperatures (TemperatureAccumulator)              *)
(***************************************************************************)

\* the board temperatures given to the accumulator in the model
AccumulatedTemperatures == {Unknown, Failed} \cup {Ok(t) : t \in MeasuredValues}

\* temps.drain(..).fold(0.0, |a, b| a.max(b))
RECURSIVE fold_max(_, _)
fold_max(a, temps) ==
    IF temps = <<>> THEN a ELSE fold_max(max(a, Head(temps)), Tail(temps))

\* the measurements collected by the loop of calc_result, in order
RECURSIVE collect(_)
collect(temps) ==
    IF temps = <<>>
    THEN <<>>
    ELSE IF Head(temps).kind = "Ok"
         THEN <<Head(temps).t>> \o collect(Tail(temps))
         ELSE collect(Tail(temps))

\* Function to calculate aggregated temperature
calc_result(temps) ==
    IF \E i \in 1..Len(temps) : temps[i].kind = "Failed"
    THEN Failed
    ELSE IF Len(collect(temps)) > 0
         THEN Ok(fold_max(0, collect(temps)))
         ELSE Unknown

(***************************************************************************)
(* SpecAccumulator: a new accumulator is given board temperatures one by   *)
(* one and then asked for the aggregate                                    *)
(***************************************************************************)
InitAccumulator ==
    /\ chain_temperatures = <<>>
    /\ input_temperature = None
    /\ DecideIdle
    /\ ChainIdle
    /\ SensorIdle
    /\ MonitorIdle
    /\ RegistryIdle
    /\ WatchdogIdle
    /\ ChipIdle

\* TemperatureAccumulator::add_chain_temp
AddChainTemp(chain_temp) ==
    /\ input_temperature = None
    /\ Len(chain_temperatures) < MaxAccumulated
    /\ chain_temperatures' = Append(chain_temperatures, chain_temp)
    /\ UNCHANGED input_temperature
    /\ UNCHANGED <<decide_vars, chain_vars, sensor_vars, monitor_vars, registry_vars,
                   watchdog_vars, chip_vars>>

\* TemperatureAccumulator::calc_result
CalcResult ==
    /\ input_temperature = None
    /\ input_temperature' = Some(calc_result(chain_temperatures))
    /\ UNCHANGED chain_temperatures
    /\ UNCHANGED <<decide_vars, chain_vars, sensor_vars, monitor_vars, registry_vars,
                   watchdog_vars, chip_vars>>

NextAccumulator ==
    \/ \E chain_temp \in AccumulatedTemperatures : AddChainTemp(chain_temp)
    \/ CalcResult

SpecAccumulator == InitAccumulator /\ [][NextAccumulator]_vars

(***************************************************************************)
(* The running monitor (Monitor, MonitorInner)                             *)
(***************************************************************************)

\* Return hashchain temperature as seen from our point of view
get_temperature(self) ==
    CASE self.kind \in {"On", "Off"} -> Unknown
      [] self.kind = "Broken" -> Failed
      [] self.kind = "Running" -> from_s9_sensor(self.temperature)

\* Chain::new
Chain(hashboard_idx) == [state |-> StateOff, hashboard_idx |-> hashboard_idx]

\* the hashboards of the miner
HashboardIdxs == 1..MaxBoards

\* the configurations the monitor runs with: automatic fan control with the
\* temperature limits above and below what the boards report, and no
\* control at all
MonitorConfigs ==
    {[fan_config |-> Some([mode |-> TargetTemperature(1), min_fans |-> 1]),
      temp_config |-> Some([dangerous_temp |-> 3, hot_temp |-> 3]),
      fans_on_while_warming_up |-> TRUE],
     [fan_config |-> Some([mode |-> TargetTemperature(1), min_fans |-> 1]),
      temp_config |-> Some([dangerous_temp |-> 2, hot_temp |-> 1]),
      fans_on_while_warming_up |-> TRUE],
     [fan_config |-> None, temp_config |-> None, fans_on_while_warming_up |-> TRUE]}

\* the messages hashchains send to the monitor in the model
MonitorMessages == {MsgOn, MsgOff, MsgRunning(Temperature(MeasurementOk(1), MeasurementOk(2)))}

\* what fan_feedback.num_fans_running() gives in the model: no fan or the one
\* fan min_fans asks for
FanFeedbacks == {0, 1}

\* the speeds fan::pid::TempControl::update gives in the model
PidSpeeds == {1, FULL_SPEED}

\* the reason do_tick gives for the shutdown over a Broken chain:
\* format!("Chain {} is broken: {}", chain.hashboard_idx, reason)
ChainBrokenReason(hashboard_idx, reason) ==
    [text |-> "Chain {} is broken: {}", hashboard_idx |-> hashboard_idx,
     reason |-> reason]

\* the reason do_tick gives for the shutdown the decision asks for:
\* decision_explained.reason.into()
DecisionReason(reason) == [text |-> reason]

\* Status
Status(cfg, fan_feedback, fan_speed, input_temp, accumulator, decision) ==
    [config |-> cfg, fan_feedback |-> fan_feedback, fan_speed |-> fan_speed,
     input_temperature |-> input_temp, temperature_accumulator |-> accumulator,
     decision_explained |-> decision]

\* chain.lock().await ignoring that the receive task holds the lock
chain_lock_ignored(position) == TRUE

\* chain.lock().await completes: the lock of the Chain is not held by its
\* receive task
chain_lock_free(position) == recv_task[position] = None

\* do_tick never taking the Broken branch
chain_is_broken_never(state) == FALSE

\* if let ChainState::Broken(reason) = chain.state
chain_is_broken(state) == state.kind = "Broken"

\* shutdown sending the halt with the guard of `inner` still alive
shutdown_keeping_inner(reason) ==
    [failure_state |-> TRUE, inner_lock |-> "tick", shutdown_reason |-> Some(reason)]

\* shutdown leaving failure_state as it is
shutdown_unmarked(reason) ==
    [failure_state |-> failure_state, inner_lock |-> "free",
     shutdown_reason |-> Some(reason)]

\* Shutdown miner: what shutdown has done when it comes to send_halt
shutdown(reason) ==
    [failure_state |-> TRUE, inner_lock |-> "free", shutdown_reason |-> Some(reason)]

\* set_fan_speed not recording the speed as current_fan_speed
set_fan_speed_unrecorded(fan_speed) ==
    [fan_control |-> Some(fan_speed), current_fan_speed |-> current_fan_speed]

\* Set fan speed
set_fan_speed(fan_speed) ==
    [fan_control |-> Some(fan_speed), current_fan_speed |-> Some(fan_speed)]

\* the match on the decision running the fans at full speed on Shutdown
decision_fan_speed_full_on_shutdown(decision, pid_speed) ==
    CASE decision.kind = "Shutdown" -> Some(FULL_SPEED)
      [] decision.kind = "UseFixedSpeed" -> Some(decision.speed)
      [] decision.kind = "UsePid" -> Some(pid_speed)
      [] OTHER -> None

\* the speed do_tick sets the fans to for a decision, None when it sets none
decision_fan_speed(decision, pid_speed) ==
    CASE decision.kind = "UseFixedSpeed" -> Some(decision.speed)
      [] decision.kind = "UsePid" -> Some(pid_speed)
      [] OTHER -> None

\* the PID given the warm-up limits whatever the configuration says
pid_limits_always_warm_up(cfg, warming_up) == "warm_up"

\* if inner.config.fans_on_while_warming_up && miner_warming_up
\* { set_warm_up_limits } else { set_normal_limits }
pid_limits(cfg, warming_up) ==
    IF cfg.fans_on_while_warming_up /\ warming_up THEN "warm_up" ELSE "normal"

\* inner.pid after the limits were set, set_target(target_temp) and
\* update(input_temp), which returned `speed`
pid_update(limits, target_temp, input_temp, speed) ==
    [limits |-> limits, target |-> Some(target_temp), input |-> Some(input_temp),
     output |-> Some(speed)]

\* status_sender.broadcast losing the Status
broadcast_dropped(monitor_status) ==
    [status |-> status, status_broadcasts |-> status_broadcasts]

\* status_sender.broadcast(Some(monitor_status))
broadcast(monitor_status) ==
    [status |-> Some(monitor_status), status_broadcasts |-> 1 - status_broadcasts]

\* termination_handler stopping the fans whatever the failure state
termination_speed_stopped(failure) == STOPPED

\* Decide whether to leave fans on (depending on whether we are in failure
\* state or not)
termination_speed(failure) == IF failure THEN FULL_SPEED ELSE STOPPED

\* Monitor::new_and_start with one of the configurations
Init ==
    /\ config \in MonitorConfigs
    /\ chains = <<>>
    /\ recv_task = <<>>
    /\ inner_lock = "free"
    /\ pc_tick = "delay"
    /\ chain_idx = 0
    /\ miner_warming_up = FALSE
    /\ fan_control = None
    /\ current_fan_speed = None
    /\ failure_state = FALSE
    /\ halt = {}
    /\ terminated = FALSE
    /\ shutdown_reason = None
    /\ status = None
    /\ applied_in_tick = {}
    /\ seen_late = {}
    /\ pid = PidNew
    /\ status_broadcasts = 0
    /\ clock = 0
    /\ num_fans_running = 0
    /\ decision_explained = None
    /\ AccumulatorIdle
    /\ SensorIdle
    /\ RegistryIdle
    /\ WatchdogIdle
    /\ ChipIdle
    /\ temp = Unknown
    /\ chain = StateOff
    /\ msgs = <<>>
    /\ op = "new"
    /\ timed_out = FALSE
    /\ turned_on = None
    /\ first_heartbeat = None

\* what the monitor never touches
monitor_unused ==
    <<temp, chain, msgs, op, timed_out, turned_on, first_heartbeat, sensor,
      chain_temperature, registry_vars, watchdog_vars, chip_vars>>

\* the locals of do_tick
tick_locals ==
    <<chain_idx, miner_warming_up, chain_temperatures, input_temperature,
      num_fans_running, decision_explained>>

\* register_hashchain: the new Chain is pushed under the lock of inner and its
\* receive task is spawned
RegisterHashchain(hashboard_idx) ==
    /\ ~terminated
    /\ Len(chains) < MaxRegistered
    /\ \A position \in 1..Len(chains) : chains[position].hashboard_idx # hashboard_idx
    /\ inner_lock = "free"
    /\ chains' = Append(chains, Chain(hashboard_idx))
    /\ recv_task' = Append(recv_task, None)
    /\ UNCHANGED <<inner_lock, pc_tick, fan_control, current_fan_speed,
                   failure_state, halt, terminated, shutdown_reason, status,
                   applied_in_tick, seen_late>>
    /\ UNCHANGED <<config, clock, tick_locals, monitor_unused, pid,
                   status_broadcasts>>

\* with_configuration: f changes the configuration under the lock of inner
WithConfiguration(new_config) ==
    /\ ~terminated
    /\ inner_lock = "free"
    /\ new_config # config
    /\ config' = new_config
    /\ UNCHANGED monitor_vars
    /\ UNCHANGED <<clock, tick_locals, monitor_unused>>

\* recv_task: a message of the hashchain has come and the lock of its Chain
\* is taken
RecvLock(position, message) ==
    /\ ~terminated
    /\ position \in 1..Len(chains)
    /\ recv_task[position] = None
    /\ recv_task' = [recv_task EXCEPT ![position] = Some(message)]
    /\ UNCHANGED <<chains, inner_lock, pc_tick, fan_control,
                   current_fan_speed, failure_state, halt, terminated,
                   shutdown_reason, status, applied_in_tick, seen_late>>
    /\ UNCHANGED <<config, clock, tick_locals, monitor_unused, pid,
                   status_broadcasts>>

\* recv_task: the message is applied at Instant::now() and the lock of the
\* Chain is released
RecvTransition(position) ==
    /\ position \in 1..Len(chains)
    /\ recv_task[position] # None
    /\ chains' = [chains EXCEPT ![position].state =
                      transition(chains[position].state, clock, recv_task[position].v)]
    /\ recv_task' = [recv_task EXCEPT ![position] = None]
    /\ applied_in_tick' = IF inner_lock = "tick"
                          THEN applied_in_tick \cup {position}
                          ELSE applied_in_tick
    /\ UNCHANGED <<inner_lock, pc_tick, fan_control, current_fan_speed,
                   failure_state, halt, terminated, shutdown_reason, status,
                   seen_late>>
    /\ UNCHANGED <<config, clock, tick_locals, monitor_unused, pid,
                   status_broadcasts>>

\* the tick task starting a tick although the halt has been broadcast
TickLockInnerAfterHalt ==
    /\ pc_tick = "delay"
    /\ inner_lock = "free"
    /\ inner_lock' = "tick"
    /\ pc_tick' = "chains"
    /\ chain_idx' = 1
    /\ miner_warming_up' = FALSE
    /\ chain_temperatures' = <<>>
    /\ applied_in_tick' = {}
    /\ seen_late' = {}
    /\ UNCHANGED <<chains, recv_task, fan_control, current_fan_speed,
                   failure_state, halt, terminated, shutdown_reason, status>>
    /\ UNCHANGED <<config, clock, input_temperature, num_fans_running,
                   decision_explained, monitor_unused, pid, status_broadcasts>>

\* do_tick: delay_for has ended and the lock of inner is taken
TickLockInner ==
    /\ pc_tick = "delay"
    /\ halt = {}
    /\ inner_lock = "free"
    /\ inner_lock' = "tick"
    /\ pc_tick' = "chains"
    /\ chain_idx' = 1
    /\ miner_warming_up' = FALSE
    /\ chain_temperatures' = <<>>
    /\ applied_in_tick' = {}
    /\ seen_late' = {}
    /\ UNCHANGED <<chains, recv_task, fan_control, current_fan_speed,
                   failure_state, halt, terminated, shutdown_reason, status>>
    /\ UNCHANGED <<config, clock, input_temperature, num_fans_running,
                   decision_explained, monitor_unused, pid, status_broadcasts>>

\* do_tick: one round of the loop over inner.chains
TickChain ==
    /\ pc_tick = "chains"
    /\ chain_idx <= Len(chains)
    /\ chain_lock_free(chain_idx)
    /\ LET ticked == tick(chains[chain_idx].state, clock)
       IN  /\ chains' = [chains EXCEPT ![chain_idx].state = ticked]
           /\ seen_late' = seen_late \cup (applied_in_tick \cap {chain_idx})
           /\ IF chain_is_broken(ticked)
              THEN LET done == shutdown(ChainBrokenReason(
                                   chains[chain_idx].hashboard_idx, ticked.reason))
                   IN  /\ failure_state' = done.failure_state
                       /\ inner_lock' = done.inner_lock
                       /\ shutdown_reason' = done.shutdown_reason
                       /\ pc_tick' = "send_halt"
                       /\ UNCHANGED <<chain_idx, miner_warming_up, chain_temperatures>>
              ELSE /\ chain_temperatures' =
                          Append(chain_temperatures, get_temperature(ticked))
                   /\ miner_warming_up' =
                          (miner_warming_up \/ is_warming_up(ticked, clock))
                   /\ chain_idx' = chain_idx + 1
                   /\ UNCHANGED <<failure_state, inner_lock, shutdown_reason, pc_tick>>
    /\ UNCHANGED <<recv_task, fan_control, current_fan_speed, halt,
                   terminated, status, applied_in_tick>>
    /\ UNCHANGED <<config, clock, input_temperature, num_fans_running,
                   decision_explained, monitor_unused, pid, status_broadcasts>>

\* do_tick after the loop: the temperatures are aggregated, the fans are
\* read, the decision is taken and acted upon, the Status is broadcast
TickDecide(fans, pid_speed) ==
    /\ pc_tick = "chains"
    /\ chain_idx > Len(chains)
    /\ LET input_temp == calc_result(chain_temperatures)
           decision == decide(config, fans, input_temp)
           speed == decision_fan_speed(decision.decision, pid_speed)
       IN  /\ fan_control' = IF speed = None THEN fan_control
                             ELSE set_fan_speed(speed.v).fan_control
           /\ current_fan_speed' = IF speed = None THEN current_fan_speed
                                   ELSE set_fan_speed(speed.v).current_fan_speed
           /\ pid' = IF decision.decision.kind = "UsePid"
                     THEN pid_update(pid_limits(config, miner_warming_up),
                                     decision.decision.target_temp,
                                     decision.decision.input_temp, pid_speed)
                     ELSE pid
           /\ IF decision.decision.kind = "Shutdown"
              THEN LET done == shutdown(DecisionReason(decision.reason))
                   IN  /\ failure_state' = done.failure_state
                       /\ inner_lock' = done.inner_lock
                       /\ shutdown_reason' = done.shutdown_reason
                       /\ pc_tick' = "send_halt"
                       /\ input_temperature' = Some(input_temp)
                       /\ num_fans_running' = fans
                       /\ decision_explained' = Some(decision)
                       /\ UNCHANGED <<status, status_broadcasts, chain_idx,
                                      miner_warming_up, chain_temperatures,
                                      applied_in_tick, seen_late>>
              ELSE LET sent == broadcast(Status(config, fans, current_fan_speed',
                                                input_temp, chain_temperatures,
                                                decision))
                   IN  /\ status' = sent.status
                       /\ status_broadcasts' = sent.status_broadcasts
                       /\ inner_lock' = "free"
                       /\ pc_tick' = "delay"
                       /\ chain_idx' = 0
                       /\ miner_warming_up' = FALSE
                       /\ chain_temperatures' = <<>>
                       /\ applied_in_tick' = {}
                       /\ seen_late' = {}
                       /\ UNCHANGED <<failure_state, shutdown_reason,
                                      input_temperature, num_fans_running,
                                      decision_explained>>
    /\ UNCHANGED <<chains, recv_task, halt, terminated>>
    /\ UNCHANGED <<config, clock, monitor_unused>>

\* shutdown: miner_shutdown.send_halt()
TickSendHalt ==
    /\ pc_tick = "send_halt"
    /\ halt' = halt \cup {"monitor"}
    /\ pc_tick' = "halting"
    /\ UNCHANGED <<chains, recv_task, inner_lock, fan_control,
                   current_fan_speed, failure_state, terminated, shutdown_reason,
                   status, applied_in_tick, seen_late>>
    /\ UNCHANGED <<config, clock, tick_locals, monitor_unused, pid,
                   status_broadcasts>>

\* the halt cancels the tick task where it is suspended: in delay_for, waiting
\* for the lock of a Chain, or in send_halt once the halt handler has run;
\* the guards the task holds are dropped with it
TickCancel ==
    /\ halt # {}
    /\ \/ pc_tick = "delay"
       \/ pc_tick = "chains" /\ chain_idx <= Len(chains) /\ ~chain_lock_free(chain_idx)
       \/ pc_tick = "halting" /\ terminated
    /\ pc_tick' = "cancelled"
    /\ inner_lock' = IF inner_lock = "tick" THEN "free" ELSE inner_lock
    /\ UNCHANGED <<chains, recv_task, fan_control, current_fan_speed,
                   failure_state, halt, terminated, shutdown_reason, status,
                   applied_in_tick, seen_late>>
    /\ UNCHANGED <<config, clock, tick_locals, monitor_unused, pid,
                   status_broadcasts>>

\* another part of the miner sends the miner-wide halt
MinerHalt ==
    /\ halt = {}
    /\ halt' = {"miner"}
    /\ UNCHANGED <<chains, recv_task, inner_lock, pc_tick, fan_control,
                   current_fan_speed, failure_state, terminated, shutdown_reason,
                   status, applied_in_tick, seen_late>>
    /\ UNCHANGED <<config, clock, tick_locals, monitor_unused, pid,
                   status_broadcasts>>

\* termination_handler, run on the halt
TerminationHandler ==
    /\ halt # {}
    /\ ~terminated
    /\ inner_lock = "free"
    /\ fan_control' = set_fan_speed(termination_speed(failure_state)).fan_control
    /\ current_fan_speed' =
           set_fan_speed(termination_speed(failure_state)).current_fan_speed
    /\ terminated' = TRUE
    /\ UNCHANGED <<chains, recv_task, inner_lock, pc_tick, failure_state,
                   halt, shutdown_reason, status, applied_in_tick, seen_late>>
    /\ UNCHANGED <<config, clock, tick_locals, monitor_unused, pid,
                   status_broadcasts>>

Next ==
    \/ \E hashboard_idx \in 1..MaxRegistered : RegisterHashchain(hashboard_idx)
    \/ \E new_config \in MonitorConfigs : WithConfiguration(new_config)
    \/ \E position \in 1..MaxRegistered, message \in MonitorMessages : RecvLock(position, message)
    \/ \E position \in 1..MaxRegistered : RecvTransition(position)
    \/ TickLockInner
    \/ TickChain
    \/ \E fans \in FanFeedbacks, pid_speed \in PidSpeeds : TickDecide(fans, pid_speed)
    \/ TickSendHalt
    \/ TickCancel
    \/ MinerHalt
    \/ TerminationHandler

Spec == Init /\ [][Next]_vars

(***************************************************************************)
(* SpecTick: the monitor at the moment a tick is due, with its registered  *)
(* hashchains in any state and no message on its way; the tick task, the   *)
(* miner-wide halt and the termination handler run from there              *)
(***************************************************************************)

\* the instants at which the tick is due in the model
TickInstants == {0, RUN_UPDATE_TIMEOUT, START_TIMEOUT}

\* the states a hashchain turned on at 0 s can be in at `now`
TickChainStates(now) ==
    {StateOff, StateOn(0),
     StateRunning(0, 0, Temperature(MeasurementOk(1), MeasurementOk(2))),
     StateRunning(0, now, Temperature(MeasurementOk(1), MeasurementOk(2))),
     bad_transition}

\* inner.chains: hashchains registered in any order, each in any state
RegisteredChains(now) ==
    UNION {{registered \in [1..n -> [state : TickChainStates(now),
                                      hashboard_idx : HashboardIdxs]] :
               \A i, j \in 1..n :
                   i # j => registered[i].hashboard_idx # registered[j].hashboard_idx}
           : n \in 0..MaxBoards}

\* the configurations a tick is run with: those above, and automatic fan
\* control that does not keep the fans on while the miner warms up
TickConfigs ==
    MonitorConfigs \cup
    {[fan_config |-> Some([mode |-> TargetTemperature(1), min_fans |-> 1]),
      temp_config |-> Some([dangerous_temp |-> 3, hot_temp |-> 3]),
      fans_on_while_warming_up |-> FALSE]}

InitTick ==
    /\ config \in TickConfigs
    /\ clock \in TickInstants
    /\ chains \in RegisteredChains(clock)
    /\ recv_task = [position \in 1..Len(chains) |-> None]
    /\ inner_lock = "free"
    /\ pc_tick = "delay"
    /\ chain_idx = 0
    /\ miner_warming_up = FALSE
    /\ \E speed \in {None, Some(50)} :
           /\ fan_control = speed
           /\ current_fan_speed = speed
    /\ failure_state = FALSE
    /\ halt = {}
    /\ terminated = FALSE
    /\ shutdown_reason = None
    /\ status = None
    /\ applied_in_tick = {}
    /\ seen_late = {}
    /\ pid = PidNew
    /\ status_broadcasts = 0
    /\ num_fans_running = 0
    /\ decision_explained = None
    /\ AccumulatorIdle
    /\ SensorIdle
    /\ RegistryIdle
    /\ WatchdogIdle
    /\ ChipIdle
    /\ temp = Unknown
    /\ chain = StateOff
    /\ msgs = <<>>
    /\ op = "new"
    /\ timed_out = FALSE
    /\ turned_on = None
    /\ first_heartbeat = None

NextTick ==
    \/ TickLockInner
    \/ TickChain
    \/ \E fans \in FanFeedbacks, pid_speed \in PidSpeeds : TickDecide(fans, pid_speed)
    \/ TickSendHalt
    \/ TickCancel
    \/ MinerHalt
    \/ TerminationHandler

SpecTick == InitTick /\ [][NextTick]_vars

(***************************************************************************)
(* Work registry (registry.rs)                                             *)
(***************************************************************************)

\* the registry sizes of the model
RegistrySizes == 1..MaxRegistrySize

\* work::Assignment values
Assignments == 1..MaxWork

\* hal::BackendSolution values: what nonce() and solution_idx() return
Solutions == [nonce : 0..MaxNonce, solution_idx : 0..MaxSolutionIdx]

\* the work_ids of a registry of `size` slots
WorkIds(size) == 0..(size - 1)

\* WorkRegistryItem as store_work builds it
WorkRegistryItem(work, initial_work) ==
    [work |-> work, solutions |-> <<>>, initial_work |-> initial_work]

\* InsertSolutionStatus
InsertSolutionStatus(duplicate, mismatched_nonce, unique_solution) ==
    [duplicate |-> duplicate, mismatched_nonce |-> mismatched_nonce,
     unique_solution |-> unique_solution]

\* work::Solution::new(work, solution, None)
WorkSolution(work, solution) == [work |-> work, solution |-> solution]

\* insert_solution pushing the solution whether or not its nonce is known
insert_solution_always_push(self, new_solution) ==
    LET matching_solution ==
            {i \in 1..Len(self.solutions) :
                 self.solutions[i].nonce = new_solution.nonce}
    IN  [item |-> [self EXCEPT !.solutions = Append(@, new_solution)],
         status |-> InsertSolutionStatus(matching_solution # {}, FALSE,
                        Some(WorkSolution(self.work, new_solution)))]

\* Associates a specified solution with mining work, accounts for duplicates:
\* the item afterwards and the status returned
insert_solution(self, new_solution) ==
    LET matching_solution ==
            {i \in 1..Len(self.solutions) :
                 self.solutions[i].nonce = new_solution.nonce}
    IN  [item |-> IF matching_solution = {}
                  THEN [self EXCEPT !.solutions = Append(@, new_solution)]
                  ELSE self,
         status |-> InsertSolutionStatus(matching_solution # {}, FALSE,
                        Some(WorkSolution(self.work, new_solution)))]

\* WorkRegistry::new
WorkRegistry(size) ==
    [registry_size |-> size, next_work_id |-> 0,
     pending_work_list |-> [work_id \in WorkIds(size) |-> None]]

\* alloc_next_work_id advancing by two
alloc_next_work_id_skipping(size, next) ==
    [work_id |-> next, next_work_id |-> (next + 2) % size]

\* alloc_next_work_id handing out the same id again
alloc_next_work_id_stuck(size, next) ==
    [work_id |-> next, next_work_id |-> next]

\* Allocate next work_id: the id returned and the next_work_id left behind
alloc_next_work_id(size, next) ==
    [work_id |-> next, next_work_id |-> (next + 1) % size]

\* store_work retiring the slot that follows the new work
retire_id_next(work_id, size) == (work_id + 1) % size

\* store_work retiring nothing but the slot it is about to fill
retire_id_none(work_id, size) == work_id

\* let retire_id = (work_id + self.registry_size / 2) % self.registry_size
retire_id(work_id, size) == (work_id + size \div 2) % size

\* Store new work to work registry and generate work_id for it; as a side
\* effect, retire stale work
store_work(size, next, list, work, initial_work) ==
    LET alloc == alloc_next_work_id(size, next)
        work_id == alloc.work_id
        retired == [list EXCEPT ![retire_id(work_id, size)] = None]
    IN  [work_id |-> work_id,
         next_work_id |-> alloc.next_work_id,
         pending_work_list |->
             [retired EXCEPT ![work_id] = Some(WorkRegistryItem(work, initial_work))]]

(***************************************************************************)
(* SpecRegistry: a registry of any size of the model, on which works are   *)
(* stored, looked up and given solutions in any order                      *)
(***************************************************************************)
InitRegistry ==
    /\ \E size \in RegistrySizes :
           /\ registry_size = WorkRegistry(size).registry_size
           /\ next_work_id = WorkRegistry(size).next_work_id
           /\ pending_work_list = WorkRegistry(size).pending_work_list
           /\ last_stored = [work_id \in WorkIds(size) |-> None]
           /\ arrivals = [work_id \in WorkIds(size) |-> <<>>]
    /\ result = [op |-> "new"]
    /\ stored = 0
    /\ inserted = 0
    /\ DecideIdle
    /\ ChainIdle
    /\ SensorIdle
    /\ AccumulatorIdle
    /\ MonitorIdle
    /\ WatchdogIdle
    /\ ChipIdle

\* registry.store_work(work, initial_work)
StoreWork(work, initial_work) ==
    /\ stored < MaxStores
    /\ LET done == store_work(registry_size, next_work_id, pending_work_list,
                              work, initial_work)
       IN  /\ next_work_id' = done.next_work_id
           /\ pending_work_list' = done.pending_work_list
           /\ result' = [op |-> "store_work", work_id |-> done.work_id,
                         work |-> work, initial_work |-> initial_work]
           /\ last_stored' = [last_stored EXCEPT ![done.work_id] =
                                  Some([work |-> work, call |-> stored])]
           /\ arrivals' = [work_id \in WorkIds(registry_size) |->
                              IF done.pending_work_list[work_id] = None
                                    \/ work_id = done.work_id
                              THEN <<>>
                              ELSE arrivals[work_id]]
    /\ stored' = stored + 1
    /\ UNCHANGED <<registry_size, inserted>>
    /\ UNCHANGED <<decide_vars, chain_vars, sensor_vars, accumulator_vars, monitor_vars,
                   watchdog_vars, chip_vars>>

\* registry.find_work(work_id)
FindWork(work_id) ==
    /\ work_id < registry_size
    /\ result' = [op |-> "find_work", work_id |-> work_id]
    /\ UNCHANGED <<registry_size, next_work_id, pending_work_list, stored, inserted,
                   last_stored, arrivals>>
    /\ UNCHANGED <<decide_vars, chain_vars, sensor_vars, accumulator_vars, monitor_vars,
                   watchdog_vars, chip_vars>>

\* registry.find_work(work_id) gives an item and insert_solution(new_solution)
\* is called on it
InsertSolution(work_id, new_solution) ==
    /\ inserted < MaxInserts
    /\ work_id < registry_size
    /\ pending_work_list[work_id] # None
    /\ LET done == insert_solution(pending_work_list[work_id].v, new_solution)
       IN  /\ pending_work_list' =
                  [pending_work_list EXCEPT ![work_id] = Some(done.item)]
           /\ result' = [op |-> "insert_solution", work_id |-> work_id,
                         status |-> done.status]
    /\ arrivals' = [arrivals EXCEPT ![work_id] = Append(@, new_solution)]
    /\ inserted' = inserted + 1
    /\ UNCHANGED <<registry_size, next_work_id, stored, last_stored>>
    /\ UNCHANGED <<decide_vars, chain_vars, sensor_vars, accumulator_vars, monitor_vars,
                   watchdog_vars, chip_vars>>

NextRegistry ==
    \/ \E work \in Assignments, initial_work \in BOOLEAN : StoreWork(work, initial_work)
    \/ \E work_id \in WorkIds(MaxRegistrySize) : FindWork(work_id)
    \/ \E work_id \in WorkIds(MaxRegistrySize), new_solution \in Solutions :
           InsertSolution(work_id, new_solution)

SpecRegistry == InitRegistry /\ [][NextRegistry]_vars

(***************************************************************************)
(* SpecWatchdog: the tick task on the clock. One registered hashchain, the *)
(* messages its receive task applies at any second, and do_tick run every  *)
(* TICK_LENGTH seconds from the start of the monitor, with fan and         *)
(* temperature control disabled; a tick takes no time.                     *)
(***************************************************************************)
\* the configuration with both controls disabled
ControlDisabled ==
    [fan_config |-> None, temp_config |-> None, fans_on_while_warming_up |-> TRUE]

\* delay_for waiting for two tick lengths
delay_for_two_ticks(now) == now + 2 * TICK_LENGTH

\* delay_for(TICK_LENGTH).await started at `now`: the instant it ends
delay_for(now) == now + TICK_LENGTH

\* Monitor::new_and_start followed by register_hashchain(1); the tick task
\* starts with a tick
InitWatchdog ==
    /\ config = ControlDisabled
    /\ chains = <<Chain(1)>>
    /\ recv_task = <<None>>
    /\ inner_lock = "free"
    /\ pc_tick = "delay"
    /\ chain_idx = 0
    /\ miner_warming_up = FALSE
    /\ fan_control = None
    /\ current_fan_speed = None
    /\ failure_state = FALSE
    /\ halt = {}
    /\ terminated = FALSE
    /\ shutdown_reason = None
    /\ status = None
    /\ applied_in_tick = {}
    /\ seen_late = {}
    /\ pid = PidNew
    /\ status_broadcasts = 0
    /\ clock = 0
    /\ next_tick = 0
    /\ last_message = None
    /\ num_fans_running = 0
    /\ decision_explained = None
    /\ temp = Unknown
    /\ chain = StateOff
    /\ msgs = <<>>
    /\ op = "new"
    /\ timed_out = FALSE
    /\ turned_on = None
    /\ first_heartbeat = None
    /\ AccumulatorIdle
    /\ SensorIdle
    /\ RegistryIdle
    /\ ChipIdle

\* what the runs of the tick task on the clock leave alone
watchdog_unused ==
    <<config, recv_task, inner_lock, terminated, applied_in_tick, seen_late,
      tick_locals, temp, chain, msgs, op, timed_out, turned_on, first_heartbeat,
      sensor, chain_temperature, registry_vars, chip_vars>>

\* recv_task: the message of the hashchain is applied at Instant::now()
WatchdogRecv(message) ==
    /\ message.kind = "On" => clock <= MaxOnTime
    /\ chains' = [chains EXCEPT ![1].state = transition(@, clock, message)]
    /\ last_message' = Some([kind |-> message.kind, at |-> clock])
    /\ UNCHANGED <<clock, next_tick, pc_tick, fan_control, current_fan_speed,
                   failure_state, halt, shutdown_reason, status, pid,
                   status_broadcasts>>
    /\ UNCHANGED watchdog_unused

\* tick_task: delay_for has ended; do_tick runs from its first line to its
\* last and, unless it shuts the miner down, the next delay_for starts
WatchdogTick(fans, pid_speed) ==
    /\ halt = {}
    /\ clock = next_tick
    /\ LET ticked == tick(chains[1].state, clock)
           temps == <<get_temperature(ticked)>>
           input_temp == calc_result(temps)
           decision == decide(config, fans, input_temp)
           speed == decision_fan_speed(decision.decision, pid_speed)
           broken == chain_is_broken(ticked)
       IN  /\ chains' = [chains EXCEPT ![1].state = ticked]
           /\ fan_control' = IF broken \/ speed = None THEN fan_control
                             ELSE set_fan_speed(speed.v).fan_control
           /\ current_fan_speed' = IF broken \/ speed = None THEN current_fan_speed
                                   ELSE set_fan_speed(speed.v).current_fan_speed
           /\ pid' = IF ~broken /\ decision.decision.kind = "UsePid"
                     THEN pid_update(pid_limits(config, is_warming_up(ticked, clock)),
                                     decision.decision.target_temp,
                                     decision.decision.input_temp, pid_speed)
                     ELSE pid
           /\ IF broken \/ decision.decision.kind = "Shutdown"
              THEN LET done == shutdown(IF broken
                                       THEN ChainBrokenReason(chains[1].hashboard_idx,
                                                              ticked.reason)
                                       ELSE DecisionReason(decision.reason))
                   IN  /\ failure_state' = done.failure_state
                       /\ shutdown_reason' = done.shutdown_reason
                       /\ halt' = halt \cup {"monitor"}
                       /\ pc_tick' = "halting"
                       /\ UNCHANGED <<status, status_broadcasts, next_tick>>
              ELSE LET sent == broadcast(Status(config, fans, current_fan_speed',
                                                input_temp, temps, decision))
                   IN  /\ status' = sent.status
                       /\ status_broadcasts' = sent.status_broadcasts
                       /\ next_tick' = delay_for(clock)
                       /\ UNCHANGED <<failure_state, shutdown_reason, halt, pc_tick>>
    /\ UNCHANGED <<clock, last_message>>
    /\ UNCHANGED watchdog_unused

\* a second passes while the tick task is in delay_for
WatchdogSecond ==
    /\ clock < next_tick
    /\ clock < MaxWatch
    /\ clock' = clock + 1
    /\ UNCHANGED <<chains, next_tick, last_message, pc_tick, fan_control,
                   current_fan_speed, failure_state, halt, shutdown_reason, status,
                   pid, status_broadcasts>>
    /\ UNCHANGED watchdog_unused

NextWatchdog ==
    \/ \E message \in MonitorMessages : WatchdogRecv(message)
    \/ \E fans \in FanFeedbacks, pid_speed \in PidSpeeds : WatchdogTick(fans, pid_speed)
    \/ WatchdogSecond

SpecWatchdog == InitWatchdog /\ [][NextWatchdog]_vars

(***************************************************************************)
(* Chip protocol library (bm1387.rs)                                       *)
(*                                                                         *)
(* A u32 is modelled as the function from its bit positions (0 the least   *)
(* significant) to 0 or 1, so that every 32-bit value has its full width;  *)
(* a u8 and a frequency in Hz are integers.                                *)
(***************************************************************************)
WordBits == 0..31

\* the u32 of a number below 2^31
u32(n) == [i \in WordBits |-> IF i = 31 THEN 0 ELSE (n \div 2^i) % 2]

\* the u32 with exactly the bits of `bits` set
word_of(bits) == [i \in WordBits |-> IF i \in bits THEN 1 ELSE 0]

\* u32::reverse_bits
reverse_bits(x) == [i \in WordBits |-> x[31 - i]]

\* u32::swap_bytes
swap_bytes(x) == [i \in WordBits |-> x[8 * (3 - (i \div 8)) + (i % 8)]]

\* u32::is_power_of_two
is_power_of_two(x) == Cardinality({i \in WordBits : x[i] = 1}) = 1

\* x - 1 for a u32 other than 0: the lowest set bit is cleared and the bits
\* below it are set
minus_one(x) ==
    LET lowest == CHOOSE i \in WordBits :
                      x[i] = 1 /\ \A j \in WordBits : j < i => x[j] = 0
    IN  [i \in WordBits |-> IF i < lowest THEN 1 ELSE IF i = lowest THEN 0 ELSE x[i]]

\* the byte made of the bits `low` to `low + 7` of x
byte_at(x, low) ==
    x[low] + 2 * x[low + 1] + 4 * x[low + 2] + 8 * x[low + 3] + 16 * x[low + 4]
    + 32 * x[low + 5] + 64 * x[low + 6] + 128 * x[low + 7]

\* u32::to_be_bytes
to_be_bytes(x) == <<byte_at(x, 24), byte_at(x, 16), byte_at(x, 8), byte_at(x, 0)>>

\* u32::from_be_bytes
from_be_bytes(bytes) ==
    [i \in WordBits |-> (bytes[4 - (i \div 8)] \div 2^(i % 8)) % 2]

\* error::Result
ResultOk(v) == [kind |-> "Ok", v |-> v]
ResultErr(error) == [kind |-> "Err", error |-> error]

\* TicketMaskReg::new leaving out swap_bytes
TicketMaskReg_new_unswapped(difficulty) ==
    IF difficulty = u32(0)
    THEN ResultErr("ASIC difficulty must be at least 1!")
    ELSE IF ~is_power_of_two(difficulty)
    THEN ResultErr("ASIC difficulty must be power of 2!")
    ELSE ResultOk([ticket_mask |-> reverse_bits(minus_one(difficulty))])

\* Builds ticket mask register instance and verifies the specified
\* difficulty is correct
TicketMaskReg_new(difficulty) ==
    IF difficulty = u32(0)
    THEN ResultErr("ASIC difficulty must be at least 1!")
    ELSE IF ~is_power_of_two(difficulty)
    THEN ResultErr("ASIC difficulty must be power of 2!")
    ELSE ResultOk([ticket_mask |-> swap_bytes(reverse_bits(minus_one(difficulty)))])

\* PackedStruct::pack of TicketMaskReg: one u32 field, endian = "msb"
TicketMaskReg_pack(self) == to_be_bytes(self.ticket_mask)

\* Register::to_reg of TicketMaskReg: pack into big-endian register
TicketMaskReg_to_reg(self) == from_be_bytes(TicketMaskReg_pack(self))

\* ChipAddress
All == [kind |-> "All"]
One(x) == [kind |-> "One", x |-> x]

\* Return if address is a broadcast
is_broadcast(self) == self.kind = "All"

\* what a function that may panic gives when it returns
Done(v) == [kind |-> "Done", v |-> v]

\* to_hw_addr using the linear chip address as it is
to_hw_addr_linear(self) ==
    IF self.kind = "All" THEN Done(0)
    ELSE IF self.x > 255 THEN Panicked
    ELSE Done(self.x)

\* Return hardware chip address or 0 if it's a broadcast; try_into() of an
\* address that does not fit into a byte fails and expect() panics
to_hw_addr(self) ==
    IF self.kind = "All" THEN Done(0)
    ELSE IF self.x * 4 > 255 THEN Panicked
    ELSE Done(self.x * 4)

\* CmdType::VilCtlCmd
VilCtlCmd == 2

\* Cmd::new
Cmd_new(code, to_all) == [code |-> code, to_all |-> to_all, cmd_type |-> VilCtlCmd]

\* PackedStruct::pack of Cmd: one byte, code in bits 0:3, to_all in bit 4,
\* cmd_type in bits 5:7
Cmd_pack(self) ==
    (self.code % 16) + 16 * (IF self.to_all THEN 1 ELSE 0) + 32 * self.cmd_type

\* CmdHeader::new_extended; `length as u8` keeps the low byte
CmdHeader_new_extended(code, length, chip_address, checksum_size) ==
    IF to_hw_addr(chip_address) = Panicked THEN Panicked
    ELSE [cmd |-> Cmd_new(code, is_broadcast(chip_address)),
          length |-> (length + checksum_size) % 256,
          hw_addr |-> to_hw_addr(chip_address).v]

\* CmdHeader::new: control commands have a CRC5 checksum that fits into 1 byte
CmdHeader_new(code, length, chip_address) ==
    CmdHeader_new_extended(code, length, chip_address, 1)

\* PackedStruct::pack of CmdHeader: cmd, length, hw_addr
CmdHeader_pack(self) == <<Cmd_pack(self.cmd), self.length, self.hw_addr>>

\* SetConfigCmd::new; Self::packed_bytes() is 3 + 1 + 4
SetConfigCmd_new(chip_address, register, value) ==
    [header |-> CmdHeader_new(8, 8, chip_address), register |-> register,
     value |-> value]

\* PackedStruct::pack of SetConfigCmd: header, register, value (endian = "msb")
SetConfigCmd_pack(self) ==
    CmdHeader_pack(self.header) \o <<self.register>> \o to_be_bytes(self.value)

\* GetStatusCmd::new; Self::packed_bytes() is 3 + 1
GetStatusCmd_new(chip_address, register) ==
    [header |-> CmdHeader_new(4, 4, chip_address), register |-> register]

\* PackedStruct::pack of GetStatusCmd: header, register
GetStatusCmd_pack(self) == CmdHeader_pack(self.header) \o <<self.register>>

\* SetChipAddressCmd::new; assert!(!chip_address.is_broadcast()) panics for All
SetChipAddressCmd_new(chip_address) ==
    IF is_broadcast(chip_address) THEN Panicked
    ELSE [header |-> CmdHeader_new(1, 4, chip_address), _reserved |-> 0]

\* PackedStruct::pack of SetChipAddressCmd: header, _reserved
SetChipAddressCmd_pack(self) == CmdHeader_pack(self.header) \o <<self._reserved>>

\* InactivateFromChainCmd::new
InactivateFromChainCmd_new ==
    [header |-> CmdHeader_new(5, 4, All), _reserved |-> 0]

\* PackedStruct::pack of InactivateFromChainCmd: header, _reserved
InactivateFromChainCmd_pack(self) ==
    CmdHeader_pack(self.header) \o <<self._reserved>>

\* the bytes of a command, or the panic that building it ended in
packed(command, bytes) ==
    IF command = Panicked \/ command.header = Panicked
    THEN Panicked
    ELSE Done(bytes)

\* Register::REG_NUM of GetAddressReg, PllReg, TicketMaskReg and MiscCtrlReg
GetAddressReg_REG_NUM == 0
PllReg_REG_NUM == 12
TicketMaskReg_REG_NUM == 24
MiscCtrlReg_REG_NUM == 28

\* Maximum supported baud rate clock divisor
MAX_BAUD_CLOCK_DIV == 26

\* TfSelector, RfSelector and I2cBusSelect with their discriminants
TfSelector == [HashDoing |-> 0, UartReceiving |-> 1, UartTransmitting |-> 2, SCL0 |-> 3]
RfSelector == [OpenDrain |-> 0, SDA0 |-> 1]
I2cBusSelect == [Bottom |-> 0, Middle |-> 1]

\* MiscCtrlReg::new: builds register instance and sanity checks the divisor
\* for the baud rate generator
MiscCtrlReg_new(not_set_baud, inv_clock, baud_div, gate_block, mmen) ==
    IF baud_div > MAX_BAUD_CLOCK_DIV
    THEN ResultErr("divisor is out of range")
    ELSE ResultOk([not_set_baud |-> not_set_baud, inv_clock |-> inv_clock,
                   baud_div |-> baud_div % 256, gate_block |-> gate_block,
                   mmen |-> mmen, tfs |-> "HashDoing", rfs |-> "OpenDrain",
                   i2c_bus |-> "Bottom"])

\* set_i2c clearing mmen with the two initialization flags
set_i2c_clearing_mmen(self, i2c_bus) ==
    [self EXCEPT !.not_set_baud = TRUE,
                 !.gate_block = FALSE,
                 !.mmen = FALSE,
                 !.tfs = IF i2c_bus.kind = "Some" THEN "SCL0" ELSE "HashDoing",
                 !.rfs = IF i2c_bus.kind = "Some" THEN "SDA0" ELSE "OpenDrain",
                 !.i2c_bus = IF i2c_bus.kind = "Some" THEN i2c_bus.v ELSE "Bottom"]

\* Alter the value of MiscCtrl register to enable I2C; `i2c_bus` selects the
\* bus or disables the I2C controller (when None)
set_i2c(self, i2c_bus) ==
    [self EXCEPT !.not_set_baud = TRUE,
                 !.gate_block = FALSE,
                 !.tfs = IF i2c_bus.kind = "Some" THEN "SCL0" ELSE "HashDoing",
                 !.rfs = IF i2c_bus.kind = "Some" THEN "SDA0" ELSE "OpenDrain",
                 !.i2c_bus = IF i2c_bus.kind = "Some" THEN i2c_bus.v ELSE "Bottom"]

\* the bit positions a field of `width` bits at `low` sets for `value`
field_bits(low, width, value) ==
    {low + j : j \in {j \in 0..(width - 1) : (value \div 2^j) % 2 = 1}}

\* PackedStruct::pack of MiscCtrlReg (bit_numbering = "lsb0", endian = "msb"):
\* not_set_baud 30, inv_clock 21, i2c_bus 16, gate_block 15, rfs 14,
\* baud_div 12:8, mmen 7, tfs 5:6
MiscCtrlReg_pack(self) ==
    to_be_bytes(word_of(
        field_bits(30, 1, IF self.not_set_baud THEN 1 ELSE 0)
            \cup field_bits(21, 1, IF self.inv_clock THEN 1 ELSE 0)
            \cup field_bits(16, 1, I2cBusSelect[self.i2c_bus])
            \cup field_bits(15, 1, IF self.gate_block THEN 1 ELSE 0)
            \cup field_bits(14, 1, RfSelector[self.rfs])
            \cup field_bits(8, 5, self.baud_div)
            \cup field_bits(7, 1, IF self.mmen THEN 1 ELSE 0)
            \cup field_bits(5, 2, TfSelector[self.tfs])))

\* Register::to_reg of MiscCtrlReg
MiscCtrlReg_to_reg(self) == from_be_bytes(MiscCtrlReg_pack(self))

\* Register::from_reg of PllReg: the fields of the 32-bit register value
\* (fbdiv in bits 23:16, refdiv in 13:8, postdiv1 in 7:4, postdiv2 in 3:0)
PllReg_from_reg(reg) ==
    [fbdiv |-> (reg \div 65536) % 256,
     refdiv |-> (reg \div 256) % 64,
     postdiv1 |-> (reg \div 16) % 16,
     postdiv2 |-> reg % 16]

\* PllFrequency::new: xtal_freq * fbdiv / refdiv / postdiv1 / postdiv2 in
\* u64; the product is divided by refdiv without being formed
\* (x * f \div r = (x \div r) * f + ((x % r) * f) \div r)
PllFrequency_new(reg, xtal_freq) ==
    LET divided == (xtal_freq \div reg.refdiv) * reg.fbdiv
                       + ((xtal_freq % reg.refdiv) * reg.fbdiv) \div reg.refdiv
    IN  [frequency |-> (divided \div reg.postdiv1) \div reg.postdiv2,
         reg |-> reg]

\* the factory dividers of the chip
BM1387_FACTORY_DIVIDERS ==
    <<2097729, 2622017, 3146305, 3670593, 4194881, 4719169,
      5243457, 5767745, 6292033, 6816321, 7340609, 7864897,
      8389185, 6357553, 4260385, 6423089, 4325921, 6554161,
      4391457, 6619697, 4456993, 6750769, 4522529, 6816305,
      4588065, 6947377, 4653601, 7012913, 4719137, 7143985,
      4784673, 7209521, 4850209, 7340593, 4915745, 7406129,
      4981281, 7537201, 5046817, 7602737, 5112353, 7733809,
      5177889, 7799345, 5243425, 7930417, 5308961, 7995953,
      5374497, 8127025, 5440033, 8192561, 5505569, 8323633,
      5571105, 8389169, 5636641, 5702177, 5767713, 5833249,
      5898785, 5964321, 6029857, 6095393, 6160929, 6226465,
      6292001, 6357537, 6423073, 6488609, 6554145, 6619681,
      6685217, 6750753, 6816289, 6881825, 6947361, 7012897,
      7078433, 7143969, 7209505, 7275041, 7340577, 7406113,
      7471649, 7537185, 7602721, 7668257, 7733793, 7799329,
      7864865, 7930401, 7995937, 8061473, 8127009, 8192545,
      8258081, 8323617, 8389153, 4325905, 4456977, 4588049,
      4719121, 4850193, 4981265, 5112337, 5243409, 5374481,
      5505553, 5636625, 5767697, 5898769, 6029841, 6160913>>

\* PllTable::new
PllTable_new(xtal_freq, table) == [table |-> table, xtal_freq |-> xtal_freq]

\* PllTable::build_pll_table: the factory dividers with their frequencies,
\* sorted by frequency
build_pll_table(xtal_freq) ==
    IF xtal_freq # 25000000
    THEN Panicked
    ELSE LET table == [i \in DOMAIN BM1387_FACTORY_DIVIDERS |->
                          PllFrequency_new(
                              PllReg_from_reg(BM1387_FACTORY_DIVIDERS[i]),
                              xtal_freq)]
         IN  Done(PllTable_new(xtal_freq,
                      SortSeq(table, LAMBDA a, b : a.frequency < b.frequency)))

\* slice::binary_search_by_key on a table sorted by frequency: Ok(i) with
\* the index (from 0) of an entry of that frequency, else Err(i) with the
\* index where an entry of that frequency would be inserted
binary_search_by_key(table, key) ==
    LET found == {i \in DOMAIN table : table[i].frequency = key}
        below == {i \in DOMAIN table : table[i].frequency < key}
    IN  IF found # {}
        THEN ResultOk((CHOOSE i \in found : TRUE) - 1)
        ELSE ResultErr(Cardinality(below))

\* utils::distance: the absolute difference of two frequencies
distance(a, b) == IF a >= b THEN a - b ELSE b - a

\* PllTable::lookup preferring the upper neighbour on a tie
lookup_tie_upper(self, target_freq) ==
    LET search == binary_search_by_key(self.table, target_freq)
    IN  IF search.kind = "Ok"
        THEN ResultOk(self.table[search.v + 1])
        ELSE LET i == search.error
             IN  IF i = 0 \/ i >= Len(self.table)
                 THEN ResultErr(<<"Requested frequency out of range!", target_freq>>)
                 ELSE IF distance(self.table[i].frequency, target_freq)
                             < distance(self.table[i + 1].frequency, target_freq)
                      THEN ResultOk(self.table[i])
                      ELSE ResultOk(self.table[i + 1])

\* PllTable::lookup; the entries i - 1 and i of the source are the entries
\* i and i + 1 of the sequence
lookup(self, target_freq) ==
    LET search == binary_search_by_key(self.table, target_freq)
    IN  IF search.kind = "Ok"
        THEN ResultOk(self.table[search.v + 1])
        ELSE LET i == search.error
             IN  IF i = 0 \/ i >= Len(self.table)
                 THEN ResultErr(<<"Requested frequency out of range!", target_freq>>)
                 ELSE IF distance(self.table[i].frequency, target_freq)
                             <= distance(self.table[i + 1].frequency, target_freq)
                      THEN ResultOk(self.table[i])
                      ELSE ResultOk(self.table[i + 1])

(***************************************************************************)
(* SpecChip: one call of a function of the chip protocol library, with     *)
(* arguments drawn from the sets below                                     *)
(***************************************************************************)
\* the difficulties given to TicketMaskReg::new: the small ones, every
\* power of two, and next to every power of two the value below it (all
\* lower bits set) and the value with bit 0 set as well
Difficulties ==
    {u32(n) : n \in 0..MaxDifficulty}
        \cup {word_of({k}) : k \in WordBits}
        \cup {word_of(0..k) : k \in WordBits}
        \cup {word_of({0, k}) : k \in WordBits}

TicketMaskCalls ==
    {[fn |-> "TicketMaskReg::new", difficulty |-> difficulty] :
         difficulty \in Difficulties}

\* the chips commands are addressed to; the last address does not fit a byte
ChipAddresses == {All} \cup {One(x) : x \in 0..MaxChipAddress}

\* the divisors of the baud rate generator used for MiscCtrlReg
BaudDivs == {0, 13, MAX_BAUD_CLOCK_DIV}

\* what set_i2c is called with
I2cBusArguments == {None, Some("Bottom"), Some("Middle")}

\* every MiscCtrlReg with a divisor of BaudDivs: the registers the
\* read-modify-write cycle of set_i2c may find on a chip
MiscCtrlRegs ==
    [not_set_baud : BOOLEAN, inv_clock : BOOLEAN, baud_div : BaudDivs,
     gate_block : BOOLEAN, mmen : BOOLEAN, tfs : DOMAIN TfSelector,
     rfs : DOMAIN RfSelector, i2c_bus : DOMAIN I2cBusSelect]

\* the MiscCtrlReg values the driver builds: by MiscCtrlReg::new, and by
\* set_i2c on such a register
MiscCtrlRegsBuilt ==
    LET built == {MiscCtrlReg_new(not_set_baud, inv_clock, baud_div,
                                  gate_block, mmen).v :
                      not_set_baud \in BOOLEAN, inv_clock \in BOOLEAN,
                      baud_div \in BaudDivs, gate_block \in BOOLEAN,
                      mmen \in BOOLEAN}
    IN  built \cup {set_i2c(reg, i2c_bus) : reg \in built, i2c_bus \in I2cBusArguments}

\* the registers written by SetConfigCmd with the values written to them: a
\* PLL divider, the ticket masks of the powers of two, the MiscCtrlReg
\* values the driver builds
RegisterValues ==
    {<<PllReg_REG_NUM, u32(6816289)>>}
        \cup {<<TicketMaskReg_REG_NUM,
                TicketMaskReg_to_reg(TicketMaskReg_new(word_of({k})).v)>> :
                  k \in WordBits}
        \cup {<<MiscCtrlReg_REG_NUM, MiscCtrlReg_to_reg(reg)>> :
                  reg \in MiscCtrlRegsBuilt}

SetConfigCalls ==
    {[fn |-> "SetConfigCmd::new", chip_address |-> chip_address,
      register |-> written[1], value |-> written[2]] :
         chip_address \in ChipAddresses, written \in RegisterValues}

GetStatusCalls ==
    {[fn |-> "GetStatusCmd::new", chip_address |-> chip_address,
      register |-> register] :
         chip_address \in ChipAddresses,
         register \in {GetAddressReg_REG_NUM, PllReg_REG_NUM,
                        TicketMaskReg_REG_NUM, MiscCtrlReg_REG_NUM}}

SetChipAddressCalls ==
    {[fn |-> "SetChipAddressCmd::new", chip_address |-> chip_address] :
         chip_address \in ChipAddresses}

InactivateFromChainCalls == {[fn |-> "InactivateFromChainCmd::new"]}

SetI2cCalls ==
    {[fn |-> "MiscCtrlReg::set_i2c", reg |-> reg, i2c_bus |-> i2c_bus] :
         reg \in MiscCtrlRegs, i2c_bus \in I2cBusArguments}

\* the table the driver looks frequencies up in
FactoryTable == build_pll_table(25000000).v

\* the frequencies looked up: every frequency of the table and the ones
\* next to it, around the middle of every two neighbours, and far outside
TargetFrequencies ==
    LET table == FactoryTable.table
        frequency(i) == table[i].frequency
        middle(i) == frequency(i) + (frequency(i + 1) - frequency(i)) \div 2
    IN  {0, 1, 50000000, 2147483647}
            \cup UNION {{frequency(i) - 1, frequency(i), frequency(i) + 1} :
                            i \in DOMAIN table}
            \cup UNION {{middle(i) - 1, middle(i), middle(i) + 1} :
                            i \in 1..(Len(table) - 1)}

LookupCalls ==
    {[fn |-> "PllTable::lookup", target_freq |-> target_freq] :
         target_freq \in TargetFrequencies}

ChipCalls ==
    TicketMaskCalls \cup SetConfigCalls \cup GetStatusCalls
        \cup SetChipAddressCalls \cup InactivateFromChainCalls \cup SetI2cCalls
        \cup LookupCalls

InitChip ==
    /\ call \in ChipCalls
    /\ reply = None
    /\ DecideIdle
    /\ ChainIdle
    /\ SensorIdle
    /\ AccumulatorIdle
    /\ MonitorIdle
    /\ RegistryIdle
    /\ WatchdogIdle

\* what a call of the library leaves alone
chip_unused ==
    <<decide_vars, chain_vars, sensor_vars, accumulator_vars, monitor_vars,
      registry_vars, watchdog_vars>>

\* TicketMaskReg::new(difficulty), and to_reg() of the register it gives
TicketMaskRegNew ==
    /\ call.fn = "TicketMaskReg::new"
    /\ reply = None
    /\ LET built == TicketMaskReg_new(call.difficulty)
       IN  reply' = Some(IF built.kind = "Ok"
                         THEN ResultOk([reg |-> built.v,
                                        value |-> TicketMaskReg_to_reg(built.v)])
                         ELSE built)
    /\ UNCHANGED call
    /\ UNCHANGED chip_unused

\* SetConfigCmd::new(chip_address, register, value).pack()
SetConfigCmdPack ==
    /\ call.fn = "SetConfigCmd::new"
    /\ reply = None
    /\ LET cmd == SetConfigCmd_new(call.chip_address, call.register, call.value)
       IN  reply' = Some(packed(cmd, SetConfigCmd_pack(cmd)))
    /\ UNCHANGED call
    /\ UNCHANGED chip_unused

\* GetStatusCmd::new(chip_address, register).pack()
GetStatusCmdPack ==
    /\ call.fn = "GetStatusCmd::new"
    /\ reply = None
    /\ LET cmd == GetStatusCmd_new(call.chip_address, call.register)
       IN  reply' = Some(packed(cmd, GetStatusCmd_pack(cmd)))
    /\ UNCHANGED call
    /\ UNCHANGED chip_unused

\* SetChipAddressCmd::new(chip_address).pack()
SetChipAddressCmdPack ==
    /\ call.fn = "SetChipAddressCmd::new"
    /\ reply = None
    /\ LET cmd == SetChipAddressCmd_new(call.chip_address)
       IN  reply' = Some(packed(cmd, SetChipAddressCmd_pack(cmd)))
    /\ UNCHANGED call
    /\ UNCHANGED chip_unused

\* InactivateFromChainCmd::new().pack()
InactivateFromChainCmdPack ==
    /\ call.fn = "InactivateFromChainCmd::new"
    /\ reply = None
    /\ LET cmd == InactivateFromChainCmd_new
       IN  reply' = Some(packed(cmd, InactivateFromChainCmd_pack(cmd)))
    /\ UNCHANGED call
    /\ UNCHANGED chip_unused

\* reg.set_i2c(i2c_bus), on the register of the call the first time and on
\* the register it has left behind after that
SetI2c ==
    /\ call.fn = "MiscCtrlReg::set_i2c"
    /\ reply.kind = "Some" => reply.v.times < MaxApplications
    /\ reply' = IF reply = None
                THEN Some([reg |-> set_i2c(call.reg, call.i2c_bus), times |-> 1])
                ELSE Some([reg |-> set_i2c(reply.v.reg, call.i2c_bus),
                           times |-> reply.v.times + 1])
    /\ UNCHANGED call
    /\ UNCHANGED chip_unused

\* PllTable::build_pll_table(25 MHz).lookup(target_freq)
PllTableLookup ==
    /\ call.fn = "PllTable::lookup"
    /\ reply = None
    /\ reply' = Some(lookup(FactoryTable, call.target_freq))
    /\ UNCHANGED call
    /\ UNCHANGED chip_unused

NextChip ==
    \/ TicketMaskRegNew
    \/ SetConfigCmdPack
    \/ GetStatusCmdPack
    \/ SetChipAddressCmdPack
    \/ InactivateFromChainCmdPack
    \/ SetI2c
    \/ PllTableLookup

SpecChip == InitChip /\ [][NextChip]_vars

(***************************************************************************)
(* Properties of the decision engine (checked under SpecDecide)            *)
(***************************************************************************)

\* the temperature danger gate fires: temperature control is configured and
\* the temperature is Failed or at least dangerous_temp
DangerGateFires ==
    /\ config.temp_config.kind = "Some"
    /\ \/ temp = Failed
       \/ temp.kind = "Ok" /\ temp.t >= config.temp_config.v.dangerous_temp

FanConfigured == config.fan_config.kind = "Some"
TempConfigured == config.temp_config.kind = "Some"

\* C1: whenever temp_config is present and the aggregated temperature is
\* Failed, or Ok(t) with t >= dangerous_temp, the decision is Shutdown, for
\* every fan_config and every num_fans_running.
C1_DangerIsShutdown ==
    (Returned /\ DangerGateFires) => Result.decision = Shutdown

\* C1 witness: fans configured as stopped, no fan running, and a temperature
\* exactly at dangerous_temp has been decided
C1_Witness ==
    /\ Returned
    /\ TempConfigured
    /\ temp.kind = "Ok" /\ temp.t = config.temp_config.v.dangerous_temp
    /\ FanConfigured /\ config.fan_config.v.mode = FixedSpeed(0)
    /\ num_fans_running = 0

\* C2: with fan_config present and the danger gate not firing: if the chosen
\* fan action is not UseFixedSpeed(0) and num_fans_running < min_fans the
\* result is Shutdown; if num_fans_running >= min_fans the chosen fan action
\* is returned unchanged.
C2_FanHealthGate ==
    (Returned /\ FanConfigured /\ ~DangerGateFires) =>
        LET chosen == fan_action(config, temp)
            min_fans == config.fan_config.v.min_fans
        IN  /\ (chosen.decision # UseFixedSpeed(0) /\ num_fans_running < min_fans)
                   => Result.decision = Shutdown
            /\ (num_fans_running >= min_fans) => Result = chosen

\* C2 witness: exactly min_fans (at least one) fans are running and a PID
\* action has been chosen
C2_Witness ==
    /\ Returned /\ FanConfigured /\ ~DangerGateFires
    /\ num_fans_running = config.fan_config.v.min_fans
    /\ num_fans_running > 0
    /\ fan_action(config, temp).decision.kind = "UsePid"

\* the configured fan mode is FixedSpeed(0): fans stopped
FansStoppedConfig ==
    FanConfigured /\ config.fan_config.v.mode = FixedSpeed(0)

\* C3: for every Config whose fan mode is FixedSpeed(0), with or
\* without temp_config, every temperature and every fan count, decide never
\* returns Shutdown on account of num_fans_running < min_fans.
C3_StoppedNeverUnderCount ==
    (Returned /\ FansStoppedConfig) => Result.reason # "Shutdown: not enough fans"

\* Where the code departs from C3: only with temp_config present and the
\* temperature Unknown, where the chosen action is UseFixedSpeed(FULL) and the
\* fan count is checked although the fans are configured as stopped.
StoppedUnderCountOnlyUnknown ==
    (Returned /\ FansStoppedConfig) =>
        IF TempConfigured /\ temp = Unknown
        THEN IF num_fans_running < config.fan_config.v.min_fans
             THEN Result = Explained(Shutdown, "Shutdown: not enough fans")
             ELSE Result.decision = UseFixedSpeed(FULL_SPEED)
        ELSE Result.reason # "Shutdown: not enough fans"

\* C4: with both fan_config and temp_config present, the danger gate not
\* firing and num_fans_running >= min_fans, decide returns UseFixedSpeed(FULL)
\* when the temperature is Unknown; UseFixedSpeed(pwm) for mode
\* FixedSpeed(pwm) with a known temperature; and for mode
\* TargetTemperature(tgt) with Ok(t): UseFixedSpeed(FULL) when t >= hot_temp,
\* otherwise UsePid{target=tgt, input=t}.
C4_BothConfigured ==
    (/\ Returned /\ FanConfigured /\ TempConfigured /\ ~DangerGateFires
     /\ num_fans_running >= config.fan_config.v.min_fans) =>
        LET mode == config.fan_config.v.mode
            hot == config.temp_config.v.hot_temp
        IN  Result.decision =
                IF temp = Unknown THEN UseFixedSpeed(FULL_SPEED)
                ELSE IF mode.kind = "FixedSpeed" THEN UseFixedSpeed(mode.pwm)
                ELSE IF temp.t >= hot THEN UseFixedSpeed(FULL_SPEED)
                ELSE UsePid(mode.target_temp, temp.t)

\* C4 witness: PID mode and a temperature exactly at hot_temp (below
\* dangerous_temp) decided with enough fans
C4_Witness ==
    /\ Returned /\ FanConfigured /\ TempConfigured /\ ~DangerGateFires
    /\ num_fans_running >= config.fan_config.v.min_fans
    /\ config.fan_config.v.mode.kind = "TargetTemperature"
    /\ temp.kind = "Ok" /\ temp.t = config.temp_config.v.hot_temp

\* C5: with fan_config present and temp_config absent, decide ignores the
\* temperature entirely: with num_fans_running >= min_fans it returns
\* UseFixedSpeed(pwm) for mode FixedSpeed(pwm) and UseFixedSpeed(FULL) for mode
\* TargetTemperature, and it never returns UsePid or Nothing.
C5_FanOnlyIgnoresTemp ==
    (Returned /\ FanConfigured /\ ~TempConfigured) =>
        LET mode == config.fan_config.v.mode
        IN  /\ \A t2 \in ChainTemperatures :
                   decide(config, num_fans_running, t2) = Result
            /\ Result.decision.kind \notin {"UsePid", "Nothing"}
            /\ (num_fans_running >= config.fan_config.v.min_fans) =>
                   Result.decision =
                       IF mode.kind = "FixedSpeed" THEN UseFixedSpeed(mode.pwm)
                       ELSE UseFixedSpeed(FULL_SPEED)

\* C5 witness: PID mode without temperature control, a Failed temperature and
\* enough fans
C5_Witness ==
    /\ Returned /\ FanConfigured /\ ~TempConfigured
    /\ config.fan_config.v.mode.kind = "TargetTemperature"
    /\ temp = Failed
    /\ num_fans_running >= config.fan_config.v.min_fans

\* C6: with fan_config absent, decide returns Nothing whenever the danger gate
\* does not fire, whatever the fan count; with both fan_config and temp_config
\* absent it returns Nothing for every temperature and every fan count.
C6_NoFanControlNothing ==
    (Returned /\ ~FanConfigured) =>
        /\ ~DangerGateFires => Result.decision = Nothing
        /\ ~TempConfigured => Result.decision = Nothing

\* C6 witness: all control disabled, a Failed temperature and no fan running
C6_Witness ==
    /\ Returned /\ ~FanConfigured /\ ~TempConfigured
    /\ temp = Failed
    /\ num_fans_running = 0

(***************************************************************************)
(* Properties of the chain state machine (checked under SpecChain)         *)
(***************************************************************************)

\* C7: transition(now = t, m) implements the transition table exactly:
\* Off+On -> On(t); On(s)+Running(T) and Running{started=s}+Running(T) ->
\* Running{started=s, last_heartbeat=t, temperature=T}; On+Off and Running+Off
\* -> Off; every other pair -> Broken.  (A step that appends to msgs is the
\* receive task applying the appended message at the current clock.)
C7_TransitionTable ==
    [][ (msgs' # msgs) =>
            LET m == msgs'[Len(msgs')]
                t == clock
            IN  CASE chain.kind = "Off" /\ m.kind = "On" ->
                        chain' = [kind |-> "On", started |-> t]
                  [] chain.kind \in {"On", "Running"} /\ m.kind = "Running" ->
                        chain' = [kind |-> "Running", started |-> chain.started,
                                  last_heartbeat |-> t, temperature |-> m.temperature]
                  [] chain.kind \in {"On", "Running"} /\ m.kind = "Off" ->
                        chain' = [kind |-> "Off"]
                  [] OTHER -> chain'.kind = "Broken"
      ]_vars

\* C7 witness: a heartbeat has just been applied to a chain that started
\* earlier and reported another sensor reading before
C7_Witness ==
    /\ op = "msg"
    /\ chain.kind = "Running"
    /\ chain.started < chain.last_heartbeat
    /\ Len(msgs) >= 3
    /\ msgs[Len(msgs) - 1].kind = "Running"
    /\ msgs[Len(msgs) - 1].temperature # chain.temperature

\* C8: Broken is absorbing: once the state is Broken it is still Broken after
\* any further message or tick.
C8_BrokenAbsorbing ==
    [][ chain.kind = "Broken" => chain'.kind = "Broken" ]_vars

\* C8 witness: a chain broken by a timeout has received a further message
C8_Witness ==
    /\ timed_out
    /\ op = "msg"
    /\ chain.kind = "Broken"

\* C9: tick(now) changes the state only on timeout: On(s) becomes Broken iff
\* now - s >= 180 s, Running{last_heartbeat=h} becomes Broken iff
\* now - h >= 20 s, and Off, Broken and On/Running within their timeout are
\* left exactly unchanged.
C9_TickOnlyOnTimeout ==
    [][ op' = "tick" =>
            /\ chain.kind = "On" =>
                   IF clock - chain.started >= 180
                   THEN chain'.kind = "Broken" ELSE chain' = chain
            /\ chain.kind = "Running" =>
                   IF clock - chain.last_heartbeat >= 20
                   THEN chain'.kind = "Broken" ELSE chain' = chain
            /\ chain.kind \in {"Off", "Broken"} => chain' = chain
      ]_vars

\* C9 witness: a chain whose only heartbeat came at 0 s has been ticked at
\* exactly 20 s and is Broken for it
C9_Witness ==
    /\ op = "tick"
    /\ clock = 20
    /\ Len(msgs) = 2 /\ msgs[1].kind = "On" /\ msgs[2].kind = "Running"
    /\ chain = [kind |-> "Broken", reason |-> "failed to set update in time"]

\* The phase a message sequence has reached in the pattern
\* Off -> On -> Running.. -> Off (repeatable), or "Violated" once it has left
\* the pattern; `strict` asks for at least one Running between On and Off.
RECURSIVE PatternPhase(_, _)
PatternPhase(seq, strict) ==
    IF seq = <<>>
    THEN "Off"
    ELSE LET before == PatternPhase(SubSeq(seq, 1, Len(seq) - 1), strict)
             m == seq[Len(seq)].kind
         IN  CASE before = "Off" /\ m = "On" -> "On"
               [] before = "On" /\ m = "Running" -> "Running"
               [] before = "Running" /\ m = "Running" -> "Running"
               [] before = "Running" /\ m = "Off" -> "Off"
               [] before = "On" /\ m = "Off" /\ ~strict -> "Off"
               [] OTHER -> "Violated"

\* C10: starting from Off and with no timeout elapsing, a board is Broken if
\* and only if its message sequence violates the pattern
\* Off -> On -> Running+ -> Off (at least one Running between On and Off).
C10_BrokenIffPatternViolated ==
    ~timed_out => (chain.kind = "Broken" <=> PatternPhase(msgs, TRUE) = "Violated")

\* C10 (amended): starting from Off and with no timeout elapsing, a board is
\* Broken if and only if its message sequence violates the pattern
\* Off -> On -> Running* -> Off (any number of Running, none included,
\* between On and Off).
C10_BrokenIffStarPatternViolated ==
    ~timed_out => (chain.kind = "Broken" <=> PatternPhase(msgs, FALSE) = "Violated")

\* C10 witness: a board turned On and Off without a heartbeat, then On again
\* and Running, ticked along the way without a timeout
C10_Witness ==
    /\ ~timed_out
    /\ op = "tick"
    /\ Len(msgs) = 4
    /\ msgs[1].kind = "On" /\ msgs[2].kind = "Off"
    /\ msgs[3].kind = "On" /\ msgs[4].kind = "Running"
    /\ chain.kind = "Running"

(***************************************************************************)
(* Properties of the temperature aggregation (checked under                *)
(* SpecAccumulator)                                                        *)
(***************************************************************************)

\* the largest of the measurements among the accumulated board temperatures
MaxMeasured ==
    CHOOSE m \in {chain_temperatures[i].t :
                     i \in {j \in 1..Len(chain_temperatures) :
                               chain_temperatures[j].kind = "Ok"}} :
        \A i \in 1..Len(chain_temperatures) :
            chain_temperatures[i].kind = "Ok" => chain_temperatures[i].t <= m

AnyFailed == \E i \in 1..Len(chain_temperatures) : chain_temperatures[i].kind = "Failed"
AnyMeasured == \E i \in 1..Len(chain_temperatures) : chain_temperatures[i].kind = "Ok"

\* C11: over any list of board temperatures (any length, any order, any
\* values including negative ones) calc_result returns Failed if any board
\* is Failed; otherwise Ok(m), m the maximum of the Ok values, if at least
\* one board is Ok; otherwise Unknown.
C11_CalcResultIsMax ==
    input_temperature.kind = "Some" =>
        input_temperature.v =
            IF AnyFailed THEN [kind |-> "Failed"]
            ELSE IF AnyMeasured THEN [kind |-> "Ok", t |-> MaxMeasured]
            ELSE [kind |-> "Unknown"]

\* calc_result agrees with C11 on every list that holds a measurement of
\* zero degrees or more, or no measurement at all
CalcResultIsMaxAboveZero ==
    (/\ input_temperature.kind = "Some"
     /\ AnyMeasured => MaxMeasured >= 0)
        => input_temperature.v =
              IF AnyFailed THEN [kind |-> "Failed"]
              ELSE IF AnyMeasured THEN [kind |-> "Ok", t |-> MaxMeasured]
              ELSE [kind |-> "Unknown"]

(***************************************************************************)
(* Properties of the sensor interpretation (checked under SpecSensor)      *)
(***************************************************************************)

\* C12: from_s9_sensor maps remote Ok(r), local Ok(l) to Ok(max(r, l));
\* remote Ok(r), local not Ok to Ok(r); remote not Ok (OpenCircuit,
\* ShortCircuit, InvalidReading, NotPresent), local Ok(l) to Ok(l + 15);
\* both not Ok to Unknown; it never returns Failed.
C12_FromS9Sensor ==
    chain_temperature.kind = "Some" =>
        LET res == chain_temperature.v
            r == sensor.remote
            l == sensor.local
        IN  /\ res.kind # "Failed"
            /\ (r.kind = "Ok" /\ l.kind = "Ok") =>
                   /\ res.kind = "Ok"
                   /\ res.t \in {r.value, l.value}
                   /\ res.t >= r.value /\ res.t >= l.value
            /\ (r.kind = "Ok" /\ l.kind # "Ok") => res = [kind |-> "Ok", t |-> r.value]
            /\ (r.kind \in {"OpenCircuit", "ShortCircuit", "InvalidReading", "NotPresent"}
                    /\ l.kind = "Ok") =>
                   res = [kind |-> "Ok", t |-> l.value + 15]
            /\ (r.kind # "Ok" /\ l.kind # "Ok") => res = [kind |-> "Unknown"]

\* C12 witness: a reading whose remote sensor is short-circuited and whose
\* local sensor measured a temperature below zero has been interpreted
C12_Witness ==
    /\ chain_temperature.kind = "Some"
    /\ sensor.remote.kind = "ShortCircuit"
    /\ sensor.local.kind = "Ok"
    /\ sensor.local.value < 0
    /\ chain_temperature.v.kind = "Ok"

(***************************************************************************)
(* Properties of the warm-up period (checked under SpecChain)              *)
(***************************************************************************)

\* C13: is_warming_up(now) is true for On(_) at any time, true for
\* Running{started=s} iff now - s <= 90 s (inclusive), and false for Off and
\* Broken, at every instant of every run; heartbeats never extend the
\* warm-up because they do not change started.
C13_IsWarmingUp ==
    /\ [](is_warming_up(chain, clock) =
              CASE chain.kind = "On" -> TRUE
                [] chain.kind = "Running" -> clock - chain.started <= 90
                [] chain.kind \in {"Off", "Broken"} -> FALSE)
    /\ [][ (msgs' # msgs /\ chain.kind = "Running" /\ chain'.kind = "Running") =>
               chain'.started = chain.started
         ]_vars

\* C13 witness: a tick at exactly 90 s after On found a board, whose latest
\* heartbeat came later than its first one, still warming up
C13_Witness ==
    /\ op = "tick"
    /\ chain.kind = "Running"
    /\ clock - chain.started = 90
    /\ first_heartbeat.v < chain.last_heartbeat
    /\ clock - chain.last_heartbeat < 20
    /\ is_warming_up(chain, clock)

\* C14: a board's warm-up period is the first 90 s counted from its first
\* Running message after On: while the board is Running, is_warming_up is
\* true throughout those 90 s and false after them.
C14_WarmUpFromFirstHeartbeat ==
    chain.kind = "Running" =>
        (is_warming_up(chain, clock) <=> clock - first_heartbeat.v <= 90)

\* C14 (amended): a board's warm-up period is counted from its On message:
\* is_warming_up is true while the board is On, true while it is Running
\* for the first 90 s after the On message (however late the first Running
\* message came) and false after them.
C14_WarmUpFromOn ==
    /\ chain.kind = "On" => is_warming_up(chain, clock)
    /\ chain.kind = "Running" =>
           (is_warming_up(chain, clock) <=> clock - turned_on.v <= 90)

\* C14 witness: a board whose first heartbeat came some time after On is
\* ticked without a timeout more than 90 s after On but less than 90 s after
\* that first heartbeat, and is not warming up
C14_Witness ==
    /\ op = "tick"
    /\ chain.kind = "Running"
    /\ turned_on.v < first_heartbeat.v
    /\ clock - turned_on.v > 90
    /\ clock - first_heartbeat.v < 90
    /\ ~is_warming_up(chain, clock)

(***************************************************************************)
(* Properties of one monitor tick and of the shutdown it may start         *)
(* (checked under SpecTick)                                                *)
(***************************************************************************)

\* the step is a round of the loop of do_tick over inner.chains
LoopRound ==
    /\ pc_tick = "chains"
    /\ chain_idx <= Len(chains)
    /\ (chain_idx' # chain_idx \/ pc_tick' # pc_tick)

\* the step is the part of do_tick that follows the loop
AfterLoop ==
    /\ pc_tick = "chains"
    /\ chain_idx > Len(chains)
    /\ pc_tick' # pc_tick

\* the fans are left as they are by the step
FansUntouched ==
    /\ fan_control' = fan_control
    /\ current_fan_speed' = current_fan_speed

\* C15: in a monitor tick the boards are advanced with tick(now) in
\* registration order; at the first board found Broken the monitor marks the
\* failure state, sends the miner-wide halt with the reason
\* "Chain <hashboard_idx> is broken: <board reason>" and returns, without
\* running the decision engine, commanding the fans or publishing a Status.
C15_FirstBrokenBoardHalts ==
    [][ /\ (pc_tick = "delay" /\ pc_tick' = "chains") => chain_idx' = 1
        /\ LoopRound =>
              LET advanced == tick(chains[chain_idx].state, clock)
              IN  /\ \A position \in 1..Len(chains) :
                         chains'[position] =
                             IF position = chain_idx
                             THEN [chains[position] EXCEPT !.state = advanced]
                             ELSE chains[position]
                  /\ \A position \in 1..(chain_idx - 1) :
                         chains[position].state.kind # "Broken"
                  /\ IF advanced.kind = "Broken"
                     THEN /\ failure_state'
                          /\ shutdown_reason' =
                                 [kind |-> "Some",
                                  v |-> [text |-> "Chain {} is broken: {}",
                                         hashboard_idx |-> chains[chain_idx].hashboard_idx,
                                         reason |-> advanced.reason]]
                          /\ pc_tick' = "send_halt"
                          /\ decision_explained' = [kind |-> "None"]
                          /\ status' = status
                          /\ FansUntouched
                     ELSE /\ chain_idx' = chain_idx + 1
                          /\ pc_tick' = "chains"
        /\ (pc_tick = "send_halt" /\ pc_tick' # pc_tick) =>
              /\ halt' = halt \cup {"monitor"}
              /\ pc_tick' = "halting"
        /\ (pc_tick \in {"send_halt", "halting"} /\ decision_explained = [kind |-> "None"]) =>
              /\ pc_tick' \in {"send_halt", "halting", "cancelled"}
              /\ chains' = chains
              /\ decision_explained' = decision_explained
              /\ status' = status
              /\ terminated' = terminated => FansUntouched
      ]_vars

\* C15 witness: the halt has been sent over the hashchain registered second,
\* whose heartbeat is overdue, after the hashchain registered first (which
\* has the higher hashboard index) was found in order
C15_Witness ==
    /\ pc_tick = "halting"
    /\ "monitor" \in halt
    /\ Len(chains) = 2
    /\ chains[1].hashboard_idx = 2
    /\ chains[1].state.kind = "Running"
    /\ chains[2].state = [kind |-> "Broken", reason |-> "failed to set update in time"]
    /\ shutdown_reason.v.hashboard_idx = 1
    /\ fan_control = [kind |-> "Some", v |-> 50]
    /\ ~terminated

\* C16: when decide returns Shutdown, the tick marks the failure state, sends
\* the halt and returns without commanding the fans: the speed of the fan
\* controller and current_fan_speed are what they were before that tick, and
\* stay so until the termination handler runs.
C16_ShutdownLeavesFans ==
    [][ /\ (inner_lock = "tick" /\ pc_tick' # "delay") => FansUntouched
        /\ AfterLoop =>
              LET fans == IF pc_tick' = "send_halt"
                          THEN num_fans_running'
                          ELSE status'.v.fan_feedback
                  decision == decide(config, fans, calc_result(chain_temperatures))
              IN  decision.decision.kind = "Shutdown" =>
                      /\ failure_state'
                      /\ pc_tick' = "send_halt"
                      /\ decision_explained' = [kind |-> "Some", v |-> decision]
                      /\ shutdown_reason' = [kind |-> "Some", v |-> [text |-> decision.reason]]
                      /\ FansUntouched
        /\ (pc_tick = "send_halt" /\ decision_explained # [kind |-> "None"]
                /\ pc_tick' # pc_tick) =>
              "monitor" \in halt'
        /\ (pc_tick \in {"send_halt", "halting"} /\ terminated' = terminated) =>
              FansUntouched
      ]_vars

\* C16 witness: the halt has been sent because no fan is running, the
\* termination handler has not run yet and the fans are at the speed they
\* had before the tick
C16_Witness ==
    /\ pc_tick = "halting"
    /\ "monitor" \in halt
    /\ ~terminated
    /\ decision_explained.kind = "Some"
    /\ decision_explained.v.reason = "Shutdown: not enough fans"
    /\ failure_state
    /\ fan_control = [kind |-> "Some", v |-> 50]
    /\ current_fan_speed = [kind |-> "Some", v |-> 50]

\* C18: whenever the monitor itself initiates the shutdown (a Broken board,
\* thermal danger, a failed readout, too few fans), failure_state is set
\* before the halt is sent and is never reset afterwards, so the termination
\* handler that runs for that halt sets the fans to FULL and never to STOPPED.
C18_MonitorHaltMeansFullSpeed ==
    /\ [](pc_tick \in {"send_halt", "halting"} => failure_state)
    /\ []("monitor" \in halt => failure_state)
    /\ [][ /\ failure_state => failure_state'
           /\ (terminated' # terminated /\ "monitor" \in halt) =>
                 /\ fan_control' = [kind |-> "Some", v |-> 100]
                 /\ current_fan_speed' = [kind |-> "Some", v |-> 100]
         ]_vars

\* C18 witness: the termination handler has run for a halt the monitor sent
\* over a dangerous temperature, and the fans are at full speed
C18_Witness ==
    /\ terminated
    /\ halt = {"monitor"}
    /\ shutdown_reason.v.text = "Shutdown: temperature above DANGEROUS"
    /\ fan_control = [kind |-> "Some", v |-> 100]

(***************************************************************************)
(* Properties of the tasks sharing the monitor (checked under Spec)        *)
(***************************************************************************)

\* C17: the termination handler, run on the halt broadcast, takes the lock of
\* inner and sets the fans to FULL if failure_state is true and to STOPPED
\* otherwise, recording that speed as current_fan_speed.
C17_TerminationSetsFans ==
    [][ terminated' # terminated =>
            /\ halt # {}
            /\ inner_lock = "free" /\ inner_lock' = "free"
            /\ fan_control' = [kind |-> "Some", v |-> IF failure_state THEN 100 ELSE 0]
            /\ current_fan_speed' = fan_control'
            /\ failure_state' = failure_state
      ]_vars

\* C17 witness: the miner was halted from outside after a tick had set the
\* fans to a speed given by the PID; the termination handler has stopped them
C17_Witness ==
    /\ terminated
    /\ halt = {"miner"}
    /\ ~failure_state
    /\ status.kind = "Some"
    /\ status.v.decision_explained.decision.kind = "UsePid"
    /\ status.v.fan_speed = [kind |-> "Some", v |-> 1]
    /\ fan_control = [kind |-> "Some", v |-> 0]
    /\ current_fan_speed = [kind |-> "Some", v |-> 0]

\* the tasks that take locks or wait for each other: the tick task, the
\* termination handler and the receive task of every registered hashchain
TickTask == [task |-> "tick", position |-> 0]

TerminationTask == [task |-> "termination", position |-> 0]

RecvTask(position) == [task |-> "recv", position |-> position]

Tasks == {TickTask, TerminationTask} \cup {RecvTask(position) : position \in 1..Len(chains)}

\* task `a` cannot go on before task `b` has: `b` holds the lock `a` is
\* waiting for, or `a` is in send_halt waiting for the halt handler
WaitsFor(a, b) ==
    \/ /\ a = TerminationTask /\ b = TickTask
       /\ halt # {} /\ ~terminated /\ inner_lock = "tick"
    \/ /\ a = TickTask /\ b = TerminationTask
       /\ pc_tick = "halting" /\ ~terminated
    \/ /\ a = TickTask /\ b.task = "recv"
       /\ pc_tick = "chains" /\ chain_idx = b.position /\ recv_task[b.position] # None

\* some tasks wait for each other in a circle
RECURSIVE Reaches(_, _, _)
Reaches(a, b, steps) ==
    \/ WaitsFor(a, b)
    \/ /\ steps > 0
       /\ \E c \in Tasks : WaitsFor(a, c) /\ Reaches(c, b, steps - 1)

Deadlocked == \E a \in Tasks : Reaches(a, a, Cardinality(Tasks))

\* a step of a task that holds a lock or can take the one it waits for
TaskStep ==
    \/ TerminationHandler
    \/ TickChain
    \/ \E fans \in FanFeedbacks, pid_speed \in PidSpeeds : TickDecide(fans, pid_speed)
    \/ TickSendHalt
    \/ TickCancel
    \/ \E position \in 1..MaxRegistered : RecvTransition(position)

\* C19: shutdown releases the lock of inner before it sends the halt, so the
\* termination handler can always complete; in no reachable state are the
\* tick task, the receive tasks, register_hashchain, with_configuration and
\* the termination handler deadlocked on the lock of inner and the locks of
\* the boards.
C19_NoDeadlock ==
    /\ pc_tick \in {"send_halt", "halting"} => inner_lock = "free"
    /\ ~Deadlocked
    /\ inner_lock = "tick" => pc_tick = "chains"
    /\ (halt # {} /\ ~terminated) => ENABLED TaskStep
    /\ (inner_lock = "tick" \/ \E position \in 1..Len(chains) : recv_task[position] # None) =>
           ENABLED TaskStep

\* C19 witness: the termination handler waits for the lock of inner held by
\* the tick task, which waits for the lock of a board held by its receive
\* task
C19_Witness ==
    /\ WaitsFor(TerminationTask, TickTask)
    /\ \E position \in 1..Len(chains) : WaitsFor(TickTask, RecvTask(position))

Broadcasts == status_broadcasts' # status_broadcasts

\* the step is the end of a tick that went through do_tick to its last line
TickCompletes == AfterLoop /\ pc_tick' = "delay"

\* the step is the end of a tick that called shutdown
TickShutsDown == pc_tick = "chains" /\ pc_tick' = "send_halt"

\* C21: every published Status is built after the actuation of the tick and
\* is consistent with it: if its decision is UseFixedSpeed(p) its fan_speed
\* is Some(p), if its decision is UsePid its fan_speed is the PID output just
\* commanded, in all cases fan_speed is the last speed commanded to the fan
\* controller, and its config is the configuration the decision was computed
\* from, under any interleaving with with_configuration and the termination
\* handler.
C21_StatusConsistent ==
    [][ Broadcasts =>
          /\ status'.kind = "Some"
          /\ LET published == status'.v
                 decision == published.decision_explained.decision
             IN  /\ published.input_temperature = calc_result(chain_temperatures)
                 /\ published.decision_explained =
                        decide(published.config, published.fan_feedback,
                               published.input_temperature)
                 /\ published.config = config
                 /\ config' = config
                 /\ decision.kind = "UseFixedSpeed" =>
                        published.fan_speed = [kind |-> "Some", v |-> decision.speed]
                 /\ decision.kind = "UsePid" =>
                        /\ pid'.input = [kind |-> "Some", v |-> decision.input_temp]
                        /\ pid'.output.kind = "Some"
                        /\ published.fan_speed = pid'.output
                 /\ decision.kind = "Nothing" => fan_control' = fan_control
                 /\ decision.kind # "Shutdown"
                 /\ published.fan_speed = fan_control'
                 /\ published.fan_speed = current_fan_speed'
      ]_vars

\* C21 witness: a tick commanded the speed the PID gave, with_configuration
\* then turned the fan control off, and the Status of a later tick, whose
\* decision is Nothing, shows the speed commanded last
C21_Witness ==
    /\ status.kind = "Some"
    /\ status.v.decision_explained.decision.kind = "Nothing"
    /\ status.v.config.fan_config.kind = "None"
    /\ status.v.fan_speed = [kind |-> "Some", v |-> 1]
    /\ pid.output = [kind |-> "Some", v |-> 1]
    /\ ~terminated

\* C22: a Status snapshot is published on the status topic after every tick
\* and after every configuration change made through with_configuration.
C22_PublishedOnTickAndChange ==
    [][ (TickCompletes \/ TickShutsDown \/ config' # config) => Broadcasts ]_vars

\* C22 (amended): a Status snapshot is published at the end of every tick
\* that does not initiate shutdown, and at no other moment: a tick that finds
\* a Broken board or decides Shutdown returns without publishing, and
\* with_configuration publishes nothing, so that a changed configuration
\* appears on the topic with the Status of the next completed tick.
C22_PublishedOnCompletedTick ==
    [][ /\ Broadcasts <=> TickCompletes
        /\ ~Broadcasts => status' = status
        /\ TickCompletes => status'.v.config = config
        /\ TickShutsDown => status' = status
        /\ config' # config => status' = status
      ]_vars

\* C22 witness: the configuration has been changed after a Status was
\* published and the topic still shows the Status with the old configuration
C22_Witness ==
    /\ status.kind = "Some"
    /\ status.v.config # config
    /\ pc_tick = "delay"
    /\ inner_lock = "free"
    /\ ~terminated

\* C23: whenever the monitor decides a safety shutdown (thermal danger, a
\* failed temperature readout, too few fans, or a Broken board), the reason
\* string of that shutdown is published in the reason field of a Status on
\* the status topic, so that an observer of the topic sees it.
C23_ShutdownReasonPublished ==
    (shutdown_reason.kind = "Some" /\ pc_tick \in {"halting", "cancelled"}) =>
        /\ status.kind = "Some"
        /\ status.v.decision_explained.reason = shutdown_reason.v.text

\* no Status on the topic carries a Shutdown decision, and once shutdown was
\* called nothing is published any more (auxiliary to C23)
ShutdownNeverPublished ==
    /\ [](status.kind = "Some" => status.v.decision_explained.decision.kind # "Shutdown")
    /\ [][shutdown_reason.kind = "Some" => status' = status]_vars

\* some registered board, as the tick found it, is warming up
SomeBoardWarmingUp ==
    \E position \in 1..Len(chains) :
        \/ chains[position].state.kind = "On"
        \/ /\ chains[position].state.kind = "Running"
           /\ clock - chains[position].state.started <= 90

\* C24: on a UsePid decision the tick calls set_warm_up_limits iff
\* fans_on_while_warming_up is true and at least one registered board is
\* warming up at that tick, and set_normal_limits otherwise; it then sets the
\* PID target, updates the PID with the input temperature, and commands the
\* fans to exactly the output of the PID, recording it as current_fan_speed.
C24_UsePidActuation ==
    [][ AfterLoop =>
          LET fans == IF pc_tick' = "send_halt"
                      THEN num_fans_running'
                      ELSE status'.v.fan_feedback
              decision == decide(config, fans, calc_result(chain_temperatures)).decision
          IN  IF decision.kind = "UsePid"
              THEN /\ pid'.limits = IF config.fans_on_while_warming_up /\ SomeBoardWarmingUp
                                    THEN "warm_up"
                                    ELSE "normal"
                   /\ pid'.target = [kind |-> "Some", v |-> decision.target_temp]
                   /\ pid'.input = [kind |-> "Some", v |-> decision.input_temp]
                   /\ pid'.output.kind = "Some"
                   /\ fan_control' = pid'.output
                   /\ current_fan_speed' = pid'.output
              ELSE pid' = pid
      ]_vars

\* C24 witness: with two boards registered, one of them off and the other
\* warming up, the tick has given the PID the warm-up limits and the fans
\* the speed the PID returned
C24_Witness ==
    /\ pid.limits = "warm_up"
    /\ config.fans_on_while_warming_up
    /\ Len(chains) = 2
    /\ \E position \in 1..2 : chains[position].state.kind = "Off"
    /\ SomeBoardWarmingUp
    /\ pid.output = [kind |-> "Some", v |-> 1]
    /\ fan_control = pid.output
    /\ current_fan_speed = pid.output
    /\ pc_tick = "delay"

\* the round of the loop of do_tick finds a board On that has been so for
\* START_TIMEOUT
StartTimeoutRound ==
    /\ LoopRound
    /\ pc_tick' # "cancelled"
    /\ chains[chain_idx].state.kind = "On"
    /\ clock - chains[chain_idx].state.started >= 180

Stores == stored' = stored + 1

\* the step is a call of insert_solution
Inserts == inserted' = inserted + 1

\* the number of occupied slots
Occupied == Cardinality({work_id \in DOMAIN pending_work_list :
                             pending_work_list[work_id].kind = "Some"})

Min(a, b) == IF a <= b THEN a ELSE b

\* C26: the i-th store_work call (i = 0, 1, 2, ...) on a registry of capacity
\* N returns work_id = i mod N, whatever the assignments, initial_work flags,
\* interleaved find_work calls or inserted solutions; next_work_id is always
\* in [0, N).
C26_WorkIdCycles ==
    /\ [](next_work_id \in 0..(registry_size - 1))
    /\ [][ Stores =>
             /\ result'.op = "store_work"
             /\ result'.work_id = stored % registry_size
         ]_vars

\* C26 witness: the sixth store_work on a registry of four slots, made after
\* two solutions were inserted, has returned 5 mod 4
C26_Witness ==
    /\ registry_size = 4
    /\ stored = 6
    /\ inserted = 2
    /\ result.op = "store_work"
    /\ result.work_id = 1

\* C27: for a registry of capacity N (every N >= 1, even or odd) and every
\* k >= 0, after k store_work calls the number of occupied slots is
\* min(k, N/2) with integer division; in particular exactly N/2 slots are
\* occupied after any k >= N stores, and at least N/2 slots are always free.
C27_OccupiedSlots ==
    /\ Occupied = Min(stored, registry_size \div 2)
    /\ registry_size - Occupied >= registry_size \div 2

\* what the code keeps for every capacity: min(k, N - N/2) occupied slots,
\* which is min(k, N/2) when N is even, and at least N/2 free slots
\* (auxiliary to C27)
OccupiedSlotsOfAnySize ==
    /\ Occupied = Min(stored, registry_size - registry_size \div 2)
    /\ registry_size % 2 = 0 => Occupied = Min(stored, registry_size \div 2)
    /\ registry_size - Occupied >= registry_size \div 2

\* C28: store_work(assignment, flag) returning k (N >= 2) leaves slot k
\* holding a fresh item (that assignment, an empty solution list,
\* initial_work = flag), leaves slot (k + N/2) mod N empty whatever it held,
\* and leaves every other slot, including its solution list, exactly as it
\* was; an item is otherwise changed only by insert_solution on its own slot.
C28_StoreWorkFrame ==
    [][ /\ (Stores /\ registry_size >= 2) =>
             LET k == result'.work_id
                 opposite == (k + registry_size \div 2) % registry_size
             IN  /\ pending_work_list'[k] =
                        [kind |-> "Some",
                         v |-> [work |-> result'.work, solutions |-> <<>>,
                                initial_work |-> result'.initial_work]]
                 /\ pending_work_list'[opposite] = [kind |-> "None"]
                 /\ \A other \in DOMAIN pending_work_list :
                        other \notin {k, opposite} =>
                            pending_work_list'[other] = pending_work_list[other]
        /\ ~Stores =>
             \A work_id \in DOMAIN pending_work_list :
                 pending_work_list'[work_id] # pending_work_list[work_id] =>
                     /\ Inserts
                     /\ result'.work_id = work_id
                     /\ pending_work_list[work_id].kind = "Some"
                     /\ pending_work_list'[work_id].kind = "Some"
                     /\ pending_work_list'[work_id].v.work =
                            pending_work_list[work_id].v.work
                     /\ pending_work_list'[work_id].v.initial_work =
                            pending_work_list[work_id].v.initial_work
      ]_vars

\* C28 witness: on a registry of four slots the store_work that returned 3
\* has emptied slot 1, which held a work, and left the two solutions of the
\* item in slot 2 in place
C28_Witness ==
    /\ registry_size = 4
    /\ result.op = "store_work"
    /\ result.work_id = 3
    /\ pending_work_list[1].kind = "None"
    /\ last_stored[1].kind = "Some"
    /\ pending_work_list[2].kind = "Some"
    /\ Len(pending_work_list[2].v.solutions) = 2

\* the nonces of a list of solutions
Nonces(solutions) == {solutions[i].nonce : i \in 1..Len(solutions)}

\* the number of works stored after the work stored last under work_id
FurtherStored(work_id) == stored - last_stored[work_id].v.call - 1

\* C29: for even N: a work stored under work_id k is returned by find_work(k)
\* (same assignment, with the solutions inserted so far) as long as fewer
\* than N/2 further works have been stored, and find_work(k) is empty once at
\* least N/2 and fewer than N further works have been stored; hence the N/2
\* most recently stored works are always available for validating late
\* nonces.
C29_WorkLifetime ==
    registry_size % 2 = 0 =>
        \A k \in DOMAIN pending_work_list :
            /\ last_stored[k].kind = "None" => pending_work_list[k].kind = "None"
            /\ last_stored[k].kind = "Some" =>
                 /\ FurtherStored(k) < registry_size
                 /\ IF FurtherStored(k) < registry_size \div 2
                    THEN /\ pending_work_list[k].kind = "Some"
                         /\ pending_work_list[k].v.work = last_stored[k].v.work
                         /\ Nonces(pending_work_list[k].v.solutions) =
                                Nonces(arrivals[k])
                    ELSE pending_work_list[k].kind = "None"

\* C29 witness: on a registry of four slots, of the works stored so far the
\* last two are found, one of them with a solution, and the two before them
\* are retired
C29_Witness ==
    /\ registry_size = 4
    /\ stored = 7
    /\ pending_work_list[1].kind = "Some" /\ pending_work_list[2].kind = "Some"
    /\ pending_work_list[0].kind = "None" /\ pending_work_list[3].kind = "None"
    /\ FurtherStored(0) = 2 /\ FurtherStored(3) = 3
    /\ Len(pending_work_list[1].v.solutions) = 1

\* the solutions of a list that are the first of their nonce, in the order
\* of the list
RECURSIVE FirstArrivals(_)
FirstArrivals(solutions) ==
    IF solutions = <<>>
    THEN <<>>
    ELSE LET front == SubSeq(solutions, 1, Len(solutions) - 1)
             last == solutions[Len(solutions)]
         IN  IF last.nonce \in Nonces(front)
             THEN FirstArrivals(front)
             ELSE Append(FirstArrivals(front), last)

\* C30: insert_solution on a registry item: if a stored solution has the
\* same nonce as the new one, it returns duplicate = true and the solution
\* list is unchanged; otherwise it returns duplicate = false and appends the
\* solution at the end; hence after any sequence of insertions the list
\* holds pairwise distinct nonces in first-arrival order.
C30_InsertSolution ==
    /\ [](\A k \in DOMAIN pending_work_list :
              pending_work_list[k].kind = "Some" =>
                  LET solutions == pending_work_list[k].v.solutions
                  IN  /\ \A i, j \in 1..Len(solutions) :
                             i # j => solutions[i].nonce # solutions[j].nonce
                      /\ solutions = FirstArrivals(arrivals[k]))
    /\ [][ Inserts =>
             LET k == result'.work_id
                 before == pending_work_list[k].v.solutions
                 after == pending_work_list'[k].v.solutions
                 new_solution == arrivals'[k][Len(arrivals'[k])]
             IN  /\ result'.op = "insert_solution"
                 /\ arrivals'[k] = Append(arrivals[k], new_solution)
                 /\ IF \E i \in 1..Len(before) : before[i].nonce = new_solution.nonce
                    THEN /\ result'.status.duplicate = TRUE
                         /\ after = before
                    ELSE /\ result'.status.duplicate = FALSE
                         /\ after = Append(before, new_solution)
         ]_vars

\* C30 witness: the second solution given to an item had the nonce of the
\* first and another solution index: it was reported as a duplicate and the
\* list still holds the first alone
C30_Witness ==
    /\ result.op = "insert_solution"
    /\ result.status.duplicate
    /\ Len(arrivals[result.work_id]) = 2
    /\ arrivals[result.work_id][1].solution_idx # arrivals[result.work_id][2].solution_idx
    /\ pending_work_list[result.work_id].v.solutions = <<arrivals[result.work_id][1]>>

(***************************************************************************)
(* C36: decide is total. For every configuration (fan control and          *)
(* temperature control each present or absent, either fan mode), every fan *)
(* count and every aggregated temperature, the call returns one of the     *)
(* four decisions and the panic branch of decide_fan_control is not taken: *)
(* whenever decide consults the fan rules, they do not panic.              *)
(***************************************************************************)
Decisions == {"Shutdown", "UsePid", "UseFixedSpeed", "Nothing"}

\* decide gets as far as the fan rules: the temperature gate did not fire and
\* fan control is configured
FanRulesConsulted ==
    /\ temp_danger(config, temp).kind = "None"
    /\ config.fan_config.kind = "Some"

C36_DecideTotal ==
    /\ FanRulesConsulted => fan_action(config, temp).decision # Panicked
    /\ Returned =>
          /\ Result.decision.kind \in Decisions
          /\ Result = decide(config, num_fans_running, temp)

\* the call whose arguments have the shape of the panic branch (a failed
\* readout under automatic fan control) returns a shutdown
C36_Witness ==
    /\ Returned
    /\ temp = Failed
    /\ config.temp_config.kind = "Some"
    /\ config.fan_config.kind = "Some"
    /\ config.fan_config.v.mode.kind = "TargetTemperature"
    /\ Result.decision = Shutdown

(***************************************************************************)
(* C37: decide is monotone in temperature. If the call returned Shutdown   *)
(* for a reading Ok(t1), decide returns Shutdown for the same              *)
(* configuration and fan count at every reading Ok(t2) with t1 <= t2.      *)
(***************************************************************************)
C37_MonotoneInTemperature ==
    (Returned /\ temp.kind = "Ok" /\ Result.decision = Shutdown) =>
        \A t2 \in TempValues :
            temp.t <= t2 =>
                decide(config, num_fans_running, Ok(t2)).decision = Shutdown

\* a shutdown for too few fans below HOT and DANGEROUS, with a hotter reading
\* that reaches HOT but not DANGEROUS
C37_Witness ==
    /\ Returned
    /\ temp.kind = "Ok"
    /\ Result.decision = Shutdown
    /\ config.temp_config.kind = "Some"
    /\ config.fan_config.kind = "Some"
    /\ config.fan_config.v.mode.kind = "TargetTemperature"
    /\ temp.t < config.temp_config.v.hot_temp
    /\ config.temp_config.v.hot_temp < config.temp_config.v.dangerous_temp
    /\ \E t2 \in TempValues :
          /\ temp.t < t2
          /\ decide_fan_control(config.fan_config.v, config.temp_config.v, Ok(t2)).decision
                = UseFixedSpeed(FULL_SPEED)
          /\ decide(config, num_fans_running, Ok(t2)).reason = "Shutdown: not enough fans"

(***************************************************************************)
(* C35: InsertSolutionStatus.unique_solution is defined only when both     *)
(* duplicate and mismatched_nonce are false: for a nonce already present   *)
(* in the item, insert_solution returns duplicate = true and               *)
(* unique_solution = None.                                                 *)
(***************************************************************************)
C35_UniqueSolutionOnlyWhenUnique ==
    result.op = "insert_solution" =>
        /\ (result.status.duplicate \/ result.status.mismatched_nonce)
               => result.status.unique_solution = None
        /\ (\E i \in 1..(Len(arrivals[result.work_id]) - 1) :
                arrivals[result.work_id][i].nonce
                    = arrivals[result.work_id][Len(arrivals[result.work_id])].nonce)
               => /\ result.status.duplicate
                  /\ result.status.unique_solution = None

\* What insert_solution does instead: the solution is reported for every
\* call, a duplicate included
UniqueSolutionAlwaysReported ==
    result.op = "insert_solution" =>
        /\ result.status.unique_solution.kind = "Some"
        /\ result.status.unique_solution.v.solution
              = arrivals[result.work_id][Len(arrivals[result.work_id])]

(***************************************************************************)
(* C38: for any interleaving of store_work calls and solution look-ups on  *)
(* a registry of even capacity N, a solution carrying the work_id under    *)
(* which work w was stored is attributed by find_work to w itself or finds *)
(* an empty slot; it is never attributed to a different work, however many *)
(* works were stored in between. As a property of steps: the work stored   *)
(* under a work_id is never replaced by another work under that work_id.   *)
(***************************************************************************)
\* the slot of work_id holds nothing, or the work stored last under work_id
HoldsLastStored(work_id) ==
    \/ pending_work_list[work_id].kind = "None"
    \/ /\ last_stored[work_id].kind = "Some"
       /\ pending_work_list[work_id].v.work = last_stored[work_id].v.work

\* the step stores another work under a work_id that has carried a work
Reused(work_id) ==
    /\ last_stored[work_id].kind = "Some"
    /\ last_stored'[work_id] # last_stored[work_id]

C38_NeverAttributedToOtherWork ==
    [][registry_size % 2 = 0 =>
          \A k \in DOMAIN pending_work_list : ~Reused(k)]_vars

\* C38 as far as it holds: the slot of a work_id holds nothing or the work
\* stored last under it, and another work is stored under the work_id of w
\* only by the N-th store_work call after the one that stored w
C38_AttributedUntilReuse ==
    /\ [](registry_size % 2 = 0 =>
             \A k \in DOMAIN pending_work_list : HoldsLastStored(k))
    /\ [][registry_size % 2 = 0 =>
             \A k \in DOMAIN pending_work_list :
                 Reused(k) =>
                     /\ Stores
                     /\ FurtherStored(k) = registry_size - 1
                     /\ result'.op = "store_work" /\ result'.work_id = k]_vars

\* C38 witness: on a registry of four slots a look-up under work_id 0 comes
\* after the fifth store_work call, which has stored another work under it
C38_Witness ==
    /\ registry_size = 4
    /\ stored = 5
    /\ last_stored[0] = Some([work |-> 2, call |-> 4])
    /\ result = [op |-> "find_work", work_id |-> 0]
    /\ pending_work_list[0].kind = "Some"
    /\ pending_work_list[0].v.work = 2

Watched == chains[1].state

\* the step is a run of do_tick
TickRuns == next_tick' # next_tick \/ halt' # halt

\* the step initiates the miner shutdown with `reason` for the broken chain
ShutsDownFor(reason) ==
    /\ failure_state'
    /\ halt' = {"monitor"}
    /\ shutdown_reason' = Some(ChainBrokenReason(1, reason))

\* seconds since the message applied last
SinceLastMessage == clock - last_message.v.at

C40_HeartbeatLossShutsDown ==
    \* while no shutdown was initiated the last heartbeat is less than 25 s
    \* old, the enabling less than 185 s, and a tick that is due can run
    /\ [](halt = {} =>
             /\ Watched.kind = "Running" =>
                    /\ last_message = Some([kind |-> "Running",
                                            at |-> Watched.last_heartbeat])
                    /\ SinceLastMessage < RUN_UPDATE_TIMEOUT + TICK_LENGTH
             /\ Watched.kind = "On" =>
                    /\ last_message = Some([kind |-> "On", at |-> Watched.started])
                    /\ SinceLastMessage < START_TIMEOUT + TICK_LENGTH
             /\ clock <= next_tick
             /\ clock = next_tick =>
                    ENABLED (\E fans \in FanFeedbacks, pid_speed \in PidSpeeds :
                                WatchdogTick(fans, pid_speed)))
    \* a tick shuts the miner down exactly when the timeout has passed, 20 to
    \* 24 s after the last heartbeat, 180 to 184 s after On
    /\ [][TickRuns =>
             /\ Watched.kind = "Running" =>
                    IF SinceLastMessage >= RUN_UPDATE_TIMEOUT
                    THEN /\ ShutsDownFor("failed to set update in time")
                         /\ SinceLastMessage < RUN_UPDATE_TIMEOUT + TICK_LENGTH
                    ELSE halt' = {}
             /\ Watched.kind = "On" =>
                    IF SinceLastMessage >= START_TIMEOUT
                    THEN /\ ShutsDownFor("took too long to start")
                         /\ SinceLastMessage < START_TIMEOUT + TICK_LENGTH
                    ELSE halt' = {}]_vars

\* C40 witness: the board was enabled at 1 s and sent its last heartbeat at
\* 101 s, one second after a tick; the ticks at 105 to 120 s let it run and
\* the tick at 125 s, 24 s after the heartbeat, has initiated the shutdown
C40_Witness ==
    /\ halt = {"monitor"}
    /\ failure_state
    /\ clock = 125
    /\ last_message = Some([kind |-> "Running", at |-> 101])
    /\ Watched = StateBroken("failed to set update in time")
    /\ shutdown_reason = Some(ChainBrokenReason(1, "failed to set update in time"))
    /\ status.kind = "Some"
    /\ status.v.input_temperature.kind = "Ok"

(***************************************************************************)
(* Properties of the chip protocol library (checked under SpecChip)        *)
(***************************************************************************)
\* the call has returned
Replied == reply.kind = "Some"

\* the exponents k with difficulty = 2^k: one for a power of two, else none
Exponents(difficulty) == {k \in WordBits : difficulty = word_of({k})}

\* C31: TicketMaskReg::new(d) returns an error iff d = 0 or d is not a power
\* of two; for every other 32-bit d it succeeds and the register value is
\* byte_swap(bit_reverse32(d - 1)): for d = 2^k the k highest bits of every
\* byte, taken from the least significant byte upwards, e.g. 64 gives
\* 0x000000FC and 2048 gives 0x0000E0FF.
C31_TicketMask ==
    (Replied /\ call.fn = "TicketMaskReg::new") =>
        LET d == call.difficulty
        IN  /\ reply.v.kind = "Err" <=> Exponents(d) = {}
            /\ reply.v.kind \in {"Ok", "Err"}
            /\ \A k \in Exponents(d) :
                   reply.v.v.value =
                       [i \in WordBits |->
                            IF 8 * (i \div 8) + 7 - (i % 8) < k THEN 1 ELSE 0]
            /\ d = u32(64) => to_be_bytes(reply.v.v.value) = <<0, 0, 0, 252>>
            /\ d = u32(2048) => to_be_bytes(reply.v.v.value) = <<0, 0, 224, 255>>
            /\ d = u32(1) => reply.v.v.value = u32(0)

\* C31 witness: the difficulty 2^31, which no signed 32-bit number holds,
\* has given the register 0xFEFFFFFF
C31_Witness ==
    /\ Replied
    /\ call = [fn |-> "TicketMaskReg::new", difficulty |-> word_of({31})]
    /\ reply.v.kind = "Ok"
    /\ to_be_bytes(reply.v.v.value) = <<254, 255, 255, 255>>

\* the register of the contractual MiscCtrl examples: MiscCtrlReg {mmen,
\* baud_div 26, gate_block, inv_clock, not_set_baud, HashDoing, OpenDrain}
ExampleMiscCtrlReg ==
    [not_set_baud |-> TRUE, inv_clock |-> TRUE, baud_div |-> 26,
     gate_block |-> TRUE, mmen |-> TRUE, tfs |-> "HashDoing",
     rfs |-> "OpenDrain", i2c_bus |-> "Bottom"]

\* SetConfigCmd::new(chip_address, register, value) as a call
SetConfigCall(chip_address, register, value) ==
    [fn |-> "SetConfigCmd::new", chip_address |-> chip_address,
     register |-> register, value |-> value]

\* the contractual commands with their bytes
ContractualBytes ==
    {<<SetConfigCall(One(9), PllReg_REG_NUM, u32(6816289)),
       <<72, 9, 36, 12, 0, 104, 2, 33>>>>,
     <<SetConfigCall(All, TicketMaskReg_REG_NUM,
                     TicketMaskReg_to_reg(TicketMaskReg_new(u32(64)).v)),
       <<88, 9, 0, 24, 0, 0, 0, 252>>>>,
     <<SetConfigCall(All, MiscCtrlReg_REG_NUM, MiscCtrlReg_to_reg(ExampleMiscCtrlReg)),
       <<88, 9, 0, 28, 64, 32, 154, 128>>>>,
     <<SetConfigCall(All, MiscCtrlReg_REG_NUM,
                     MiscCtrlReg_to_reg(set_i2c(ExampleMiscCtrlReg, Some("Bottom")))),
       <<88, 9, 0, 28, 64, 32, 90, 224>>>>,
     <<[fn |-> "GetStatusCmd::new", chip_address |-> All,
        register |-> GetAddressReg_REG_NUM],
       <<84, 5, 0, 0>>>>,
     <<[fn |-> "InactivateFromChainCmd::new"], <<85, 5, 0, 0>>>>,
     <<[fn |-> "SetChipAddressCmd::new", chip_address |-> One(1)],
       <<65, 5, 4, 0>>>>}

\* the calls that build and pack a command
CommandFns ==
    {"SetConfigCmd::new", "GetStatusCmd::new", "SetChipAddressCmd::new",
     "InactivateFromChainCmd::new"}

\* the chip or chips the command of the call is addressed to
Addressed == IF call.fn = "InactivateFromChainCmd::new" THEN All ELSE call.chip_address

\* C32: packing the commands produces exactly the contractual bytes:
\* SetConfig(One(9), PLL, 0x00680221) = 48 09 24 0C 00 68 02 21;
\* SetConfig(All, TicketMask, diff 64) = 58 09 00 18 00 00 00 FC;
\* SetConfig(All, MiscCtrl {mmen, baud_div 26, gate_block, inv_clock,
\* not_set_baud, HashDoing, OpenDrain}) = 58 09 00 1C 40 20 9A 80 and
\* 58 09 00 1C 40 20 5A E0 with I2C enabled; GetStatus(All, GetAddress) =
\* 54 05 00 00; InactivateFromChain = 55 05 00 00; SetChipAddress(One(1)) =
\* 41 05 04 00; broadcast commands set the to_all bit and a zero address
\* byte, One(i) gives address byte 4*i.
C32_CommandBytes ==
    (Replied /\ call.fn \in CommandFns) =>
        /\ \A example \in ContractualBytes :
               call = example[1] => reply.v = Done(example[2])
        /\ reply.v.kind = "Done" =>
               LET bytes == reply.v.v
               IN  /\ (bytes[1] \div 16) % 2 = (IF Addressed = All THEN 1 ELSE 0)
                   /\ bytes[1] \div 32 = 2
                   /\ bytes[2] = Len(bytes) + 1
                   /\ bytes[3] = (IF Addressed = All THEN 0 ELSE 4 * Addressed.x)
                   /\ \A i \in 1..Len(bytes) : bytes[i] \in 0..255
        /\ reply.v.kind = "Done" <=>
               IF Addressed = All
               THEN call.fn # "SetChipAddressCmd::new"
               ELSE Addressed.x <= 63

\* C32 witness: the MiscCtrl register of the example, with I2C enabled on
\* the bottom bus, has been packed into a SetConfig command for all chips
C32_Witness ==
    /\ Replied
    /\ call = SetConfigCall(All, MiscCtrlReg_REG_NUM,
                  MiscCtrlReg_to_reg(set_i2c(ExampleMiscCtrlReg, Some("Bottom"))))
    /\ reply.v = Done(<<88, 9, 0, 28, 64, 32, 90, 224>>)

\* C33: MiscCtrlReg::set_i2c(bus or none) leaves baud_div, inv_clock and
\* mmen unchanged; sets not_set_baud = true and gate_block = false; sets
\* (tfs, rfs, i2c_bus) to (SCL0, SDA0, bus) for Some(bus) and to the
\* defaults (HashDoing, OpenDrain, Bottom) for None; applying it twice with
\* the same argument gives the same register as applying it once.
C33_SetI2c ==
    /\ []((Replied /\ call.fn = "MiscCtrlReg::set_i2c") =>
             LET reg == reply.v.reg
             IN  /\ reg.baud_div = call.reg.baud_div
                 /\ reg.inv_clock = call.reg.inv_clock
                 /\ reg.mmen = call.reg.mmen
                 /\ reg.not_set_baud
                 /\ ~reg.gate_block
                 /\ <<reg.tfs, reg.rfs, reg.i2c_bus>> =
                        IF call.i2c_bus = None
                        THEN <<"HashDoing", "OpenDrain", "Bottom">>
                        ELSE <<"SCL0", "SDA0", call.i2c_bus.v>>)
    /\ [][(Replied /\ call.fn = "MiscCtrlReg::set_i2c") =>
             /\ reply'.v.times = reply.v.times + 1
             /\ reply'.v.reg = reply.v.reg]_vars

\* C33 witness: set_i2c(None) has been applied twice to a register that had
\* I2C enabled on the middle bus, gate_block set and not_set_baud clear
C33_Witness ==
    /\ Replied
    /\ call.fn = "MiscCtrlReg::set_i2c"
    /\ call.i2c_bus = None
    /\ call.reg = [not_set_baud |-> FALSE, inv_clock |-> TRUE, baud_div |-> 13,
                   gate_block |-> TRUE, mmen |-> TRUE, tfs |-> "SCL0",
                   rfs |-> "SDA0", i2c_bus |-> "Middle"]
    /\ reply.v.times = 2
    /\ reply.v.reg = [not_set_baud |-> TRUE, inv_clock |-> TRUE, baud_div |-> 13,
                      gate_block |-> FALSE, mmen |-> TRUE, tfs |-> "HashDoing",
                      rfs |-> "OpenDrain", i2c_bus |-> "Bottom"]

\* the lookup of the call has returned
Looked == Replied /\ call.fn = "PllTable::lookup"

\* C34: PllTable::lookup(target) on the factory table built for 25 MHz
\* (sorted by frequency ascending): it returns entry i for every table
\* frequency f_i; for a target strictly between adjacent entries it returns
\* the nearer one by absolute distance and the lower one on a tie; and it
\* returns an error iff target < table[0].frequency or target >
\* table[last].frequency (so lookup(703125000) = 700000000,
\* lookup(703125001) = 706250000, lookup(0) and lookup(1175000001) fail).
C34_Lookup ==
    Looked =>
        LET table == FactoryTable.table
            last == Len(table)
            target == call.target_freq
        IN  /\ last = 114
            /\ table[1].frequency = 100000000
            /\ table[last].frequency = 1175000000
            /\ \A i \in 1..(last - 1) : table[i].frequency < table[i + 1].frequency
            /\ \A i \in 1..last :
                   target = table[i].frequency => reply.v = ResultOk(table[i])
            /\ \A i \in 1..(last - 1) :
                   (table[i].frequency < target /\ target < table[i + 1].frequency) =>
                       reply.v = ResultOk(
                           IF target - table[i].frequency
                                  <= table[i + 1].frequency - target
                           THEN table[i]
                           ELSE table[i + 1])
            /\ reply.v.kind = "Err" <=>
                   (target < table[1].frequency \/ target > table[last].frequency)
            /\ target = 703125000 => reply.v.v.frequency = 700000000
            /\ target = 703125001 => reply.v.v.frequency = 706250000
            /\ target \in {0, 1175000001} => reply.v.kind = "Err"

\* C34 witness: the frequency in the middle of 700 MHz and 706.25 MHz has
\* been looked up and the entry of 700 MHz returned
C34_Witness ==
    /\ Looked
    /\ call.target_freq = 703125000
    /\ reply.v.kind = "Ok"
    /\ reply.v.v.frequency = 700000000
    /\ reply.v.v.reg = [fbdiv |-> 112, refdiv |-> 2, postdiv1 |-> 2, postdiv2 |-> 1]

====
